---- MODULE Spec2Model ----
(***************************************************************************)
(* State-machine model of the dating-app backend (FastAPI + SQLAlchemy on  *)
(* PostgreSQL).  The database tables are the shared state; every HTTP      *)
(* request runs in its own session/transaction (app/database.py get_db)    *)
(* and is split at its suspension points: the reads that fill the          *)
(* session's identity map, and the flush + COMMIT at the end.  PostgreSQL  *)
(* runs the statements under its default READ COMMITTED isolation.         *)
(***************************************************************************)
EXTENDS Integers, FiniteSets, Sequences, Bags, TLC

\* ------------------------------------------------------------------ bounds
\* number of requests that can be in flight at the same time
NumReqs == 2
\* cap on the approval counters of a Like (approvals are unbounded in the code)
MaxApprovals == 2
\* largest number of multi-byte characters in a signup password
MaxWide == 1
\* number of uploads (each takes a new photo id)
MaxUploads == 3
\* number of groups (create_group is unbounded in the code)
MaxGroups == 3
\* number of successful logins (each takes a later timestamp for last_login)
MaxLogins == 2

\* ------------------------------------------------------------------ state
VARIABLES
    users,          \* table users:         rows [id, email, phone_number, pictures]
    auth_users,     \* table auth_users:    rows [id, email, password_hash, is_active, user_id,
                    \*                            last_login]
    groups,         \* table groups:        rows [id, is_active]
    group_members,  \* table group_members: rows [id, group_id, user_id, role, is_active]
    likes,          \* table likes
    matches,        \* table matches
    clock,          \* the database's now()
    inflight,       \* bag of open sessions: requests between their reads and their commit
    response,       \* the HTTP response produced by the last step (NoResponse if none)
    settings        \* the storage settings of the process [s3_bucket_name,
                    \*    s3_photo_prefix, s3_endpoint_url], read once at start

vars == <<users, auth_users, groups, group_members, likes, matches, clock,
          inflight, response, settings>>

db == <<users, auth_users, groups, group_members, likes, matches, clock>>

\* SQL NULL in a timestamp column
NULL == 0

NoResponse == [op |-> "none", status |-> 0]

\* ------------------------------------------------------------------ sessions
\* A request that has done its reads and not yet committed is a record in the
\* bag inflight (two requests can hold identical sessions).
CanStart == BagCardinality(inflight) < NumReqs
Sessions == BagToSet(inflight)
Open(q) == inflight (+) SetToBag({q})
Close(q) == inflight (-) SetToBag({q})

\* ------------------------------------------------------------------ fixtures
\* Profiles and groups that earlier signup / create_group requests have made:
\* group 1 = {user 1}, group 2 = {user 2, user 3}; user 4 is in no group.
UserIds == {1, 2, 3, 4}
GroupIds == {1, 2}

\* the groups whose members send the create_like requests of this specification
LikerInputs == {2}

InitMembers ==
    { [id |-> 1, group_id |-> 1, user_id |-> 1, role |-> "member", is_active |-> TRUE],
      [id |-> 2, group_id |-> 2, user_id |-> 2, role |-> "member", is_active |-> TRUE],
      [id |-> 3, group_id |-> 2, user_id |-> 3, role |-> "member", is_active |-> TRUE] }

\* ------------------------------------------------------------------ matching
\* a count that does not look at the group
ActiveMemberCount_AllGroups(g) ==
    Cardinality({m \in group_members : m.is_active})

\* select(func.count(GroupMember.id)).where(group_id == g, is_active == True)
ActiveMemberCount(g) ==
    Cardinality({m \in group_members : m.group_id = g /\ m.is_active})

\* db.get(Group, g) and "not group or not group.is_active"
GroupUsable(g) == \E gr \in groups : gr.id = g /\ gr.is_active

\* a membership query that does not look at the group
IsActiveMember_AnyGroup(g, u) ==
    \E m \in group_members : m.user_id = u /\ m.is_active

\* the route's membership query: an active GroupMember row of user u in group g
IsActiveMember(g, u) ==
    \E m \in group_members : m.group_id = g /\ m.user_id = u /\ m.is_active

\* likes without its unique constraint
LikeInsertOk_NoConstraint(row) == TRUE

\* UniqueConstraint('liker_group_id', 'likee_group_id', name='uq_like')
LikeInsertOk(row) ==
    ~\E k \in likes : k.liker_group_id = row.liker_group_id
                      /\ k.likee_group_id = row.likee_group_id

\* matches with the check constraint alone (no unique constraint on the pair)
MatchInsertOk_CheckOnly(row) == row.group1_id < row.group2_id

\* UniqueConstraint('group1_id', 'group2_id') and CheckConstraint('group1_id < group2_id')
MatchInsertOk(row) ==
    /\ row.group1_id < row.group2_id
    /\ ~\E m \in matches : m.group1_id = row.group1_id /\ m.group2_id = row.group2_id

Min(a, b) == IF a <= b THEN a ELSE b
Max(a, b) == IF a >= b THEN a ELSE b

ApproveResp(like_id, user_id, status, detail) ==
    [op |-> "approve_like", like_id |-> like_id, user_id |-> user_id,
     status |-> status, detail |-> detail]

CreateLikeResp(status, detail) ==
    [op |-> "create_like", status |-> status, detail |-> detail]

\* POST /matching/likes: the route's membership check, then create_like up to
\* the point where the new Like is pending in the session.
CreateLikeBegin(liker_group_id, likee_group_id, user_id) ==
    /\ UNCHANGED settings
    /\ CanStart
    /\ UNCHANGED db
    /\ LET fail(status, detail) ==
               /\ response' = CreateLikeResp(status, detail)
               /\ UNCHANGED inflight
           group_a_count == ActiveMemberCount(liker_group_id)
           group_b_count == ActiveMemberCount(likee_group_id)
       IN  IF ~IsActiveMember(liker_group_id, user_id)
             THEN fail(403, "You must be a member of the liker group.")
           ELSE IF ~GroupUsable(liker_group_id)
             THEN fail(404, "Liker group not found.")
           ELSE IF ~GroupUsable(likee_group_id)
             THEN fail(404, "Likee group not found.")
           ELSE IF liker_group_id = likee_group_id
             THEN fail(400, "A group cannot like itself.")
           ELSE IF \E k \in likes : k.liker_group_id = liker_group_id
                                    /\ k.likee_group_id = likee_group_id
             THEN fail(400, "Like already exists.")
           ELSE IF group_a_count = 0 \/ group_b_count = 0
             THEN fail(400, "Groups must have at least one active member.")
           ELSE /\ inflight' = Open(
                      [op |-> "create_like",
                       like |-> [liker_group_id |-> liker_group_id,
                                 likee_group_id |-> likee_group_id,
                                 initiator_user_id |-> user_id,
                                 group_b_approvals_count |-> 0,
                                 group_b_required_count |-> group_b_count,
                                 group_a_approvals_count |-> 0,
                                 group_a_required_count |-> group_a_count,
                                 status |-> "pending_group_b",
                                 matched_at |-> NULL]])
                /\ response' = NoResponse

\* create_like: db.commit() of the pending Like, IntegrityError handled.
\* The identifier is the next value of the table's sequence (modelled gap-free).
CreateLikeCommit(q) ==
    /\ UNCHANGED settings
    /\ q \in Sessions
    /\ q.op = "create_like"
    /\ inflight' = Close(q)
    /\ UNCHANGED <<users, auth_users, groups, group_members, matches, clock>>
    /\ IF LikeInsertOk(q.like)
         THEN /\ likes' = likes \cup {[id |-> Cardinality(likes) + 1] @@ q.like}
              /\ response' = CreateLikeResp(201, "")
         ELSE /\ likes' = likes
              /\ response' = CreateLikeResp(400, "Unable to create like.")

\* a membership loop that takes every caller for a member of the likee group
UserGroupChoices_AnyCaller(like, user_id) == {like.likee_group_id}

\* The for-loop over the user's active memberships: the first row whose group is
\* the likee or the liker group decides.  The SELECT has no ORDER BY, so any
\* of the user's matching groups can come first.
UserGroupChoices(like, user_id) ==
    {g \in {like.likee_group_id, like.liker_group_id} :
        \E m \in group_members : m.user_id = user_id /\ m.is_active /\ m.group_id = g}

\* the approval counter that an approval for group g increments
SideCount(like, g) ==
    IF g = like.likee_group_id THEN like.group_b_approvals_count
                               ELSE like.group_a_approvals_count

\* a status check that lets a matched Like through
LikeFinalized_RejectedOnly(like) == like.status \in {"rejected"}

\* if like.status in ("matched", "rejected")
LikeFinalized(like) == like.status \in {"matched", "rejected"}

\* approve_like up to db.commit(): db.get(Like, like_id) with its two early
\* exits, then the membership query with the 403 exit.  (No request of this
\* model writes group_members between the two reads, so they are one step.)
\* now() is the start time of the transaction the first read opens.
ApproveBegin(like_id, user_id) ==
    /\ UNCHANGED settings
    /\ CanStart
    /\ UNCHANGED db
    /\ LET found == {k \in likes : k.id = like_id}
           fail(status, detail) ==
               /\ response' = ApproveResp(like_id, user_id, status, detail)
               /\ UNCHANGED inflight
       IN  IF found = {}
             THEN fail(404, "Like not found.")
           ELSE LET like == CHOOSE k \in found : TRUE
                IN  IF LikeFinalized(like)
                      THEN fail(400, "Like is already " \o like.status \o ".")
                    ELSE IF UserGroupChoices(like, user_id) = {}
                      THEN fail(403, "User is not a member of either group in this like.")
                    ELSE /\ \E g \in UserGroupChoices(like, user_id) :
                               /\ SideCount(like, g) < MaxApprovals
                               /\ inflight' = Open([op |-> "approve_like", like |-> like,
                                                 user_id |-> user_id,
                                                 user_group_id |-> g, txn_time |-> clock])
                         /\ response' = NoResponse

\* an update that counts at most one approval for a side
ApproveInMemory_CountsOnce(like, user_group_id, now) ==
    IF user_group_id = like.likee_group_id
      THEN [like |-> [like EXCEPT
                  !.group_b_approvals_count = 1,
                  !.status = IF 1 >= like.group_b_required_count
                               THEN "pending_group_a" ELSE @],
            match_created |-> {}]
      ELSE [like |-> [like EXCEPT !.group_a_approvals_count = 1],
            match_created |-> {}]

\* The in-memory update of the loaded Like (services/matching.py 265-297):
\* the Like as the session holds it before commit, and the Match it added.
ApproveInMemory(like, user_group_id, now) ==
    IF user_group_id = like.likee_group_id
      THEN LET b == like.group_b_approvals_count + 1
           IN  [like |-> [like EXCEPT
                       !.group_b_approvals_count = b,
                       !.status = IF b >= like.group_b_required_count
                                    THEN "pending_group_a" ELSE @],
                match_created |-> {}]
    ELSE IF user_group_id = like.liker_group_id
      THEN LET a == like.group_a_approvals_count + 1
               done == /\ a >= like.group_a_required_count
                       /\ like.group_b_approvals_count >= like.group_b_required_count
           IN  [like |-> [like EXCEPT
                       !.group_a_approvals_count = a,
                       !.status = IF done THEN "matched" ELSE @,
                       !.matched_at = IF done THEN now ELSE @],
                match_created |->
                    IF done
                      THEN {[group1_id |-> Min(like.liker_group_id, like.likee_group_id),
                             group2_id |-> Max(like.liker_group_id, like.likee_group_id),
                             matched_at |-> now,
                             is_active |-> TRUE]}
                      ELSE {}]
    ELSE [like |-> like, match_created |-> {}]

\* The flush's UPDATE likes SET ... WHERE id = :id.  The unit of work writes the
\* columns whose value differs from the value loaded, onto the row as it is
\* now in the table (READ COMMITTED: no check that the row is still as loaded).
FlushUpdate(current, loaded, mem) ==
    [current EXCEPT
        !.group_b_approvals_count =
            IF mem.group_b_approvals_count # loaded.group_b_approvals_count
              THEN mem.group_b_approvals_count ELSE @,
        !.group_a_approvals_count =
            IF mem.group_a_approvals_count # loaded.group_a_approvals_count
              THEN mem.group_a_approvals_count ELSE @,
        !.status = IF mem.status # loaded.status THEN mem.status ELSE @,
        !.matched_at = IF mem.matched_at # loaded.matched_at THEN mem.matched_at ELSE @]

\* Status given to a request whose commit raises IntegrityError: approve_like
\* has no handler around db.commit(), so the exception leaves the route.
ApproveIntegrityErrorStatus == 500

\* approve_like: db.commit() (flush the UPDATE and the INSERT, then COMMIT).
\* A constraint violation on the INSERT aborts the transaction; the session is
\* closed by get_db, which rolls everything back.
ApproveCommit(q) ==
    /\ UNCHANGED settings
    /\ q \in Sessions
    /\ q.op = "approve_like"
    /\ inflight' = Close(q)
    /\ UNCHANGED <<users, auth_users, groups, group_members>>
    /\ LET mem == ApproveInMemory(q.like, q.user_group_id, q.txn_time)
           current == CHOOSE k \in likes : k.id = q.like.id
       IN  IF \E m \in mem.match_created : ~MatchInsertOk(m)
             THEN /\ UNCHANGED <<likes, matches, clock>>
                  /\ response' = ApproveResp(q.like.id, q.user_id, ApproveIntegrityErrorStatus,
                                             "Internal Server Error")
             ELSE /\ likes' = (likes \ {current})
                                 \cup {FlushUpdate(current, q.like, mem.like)}
                  /\ matches' = matches \cup
                        {[id |-> Cardinality(matches) + 1] @@ m : m \in mem.match_created}
                  /\ clock' = IF mem.match_created = {} THEN clock ELSE clock + 1
                  /\ response' = ApproveResp(q.like.id, q.user_id, 200,
                        IF mem.match_created = {} THEN "Like approved"
                                                  ELSE "Match created!")

\* ------------------------------------------------------------------ groups
\* group_members without its unique constraint
MemberInsertOk_NoConstraint(row) == TRUE

\* UniqueConstraint('group_id', 'user_id', name='uq_group_member')
MemberInsertOk(row) ==
    ~\E m \in group_members : m.group_id = row.group_id /\ m.user_id = row.user_id

\* the response to POST /groups sent by caller; member_ids is the list that the
\* route handed to create_group
CreateGroupResp(caller, member_ids, status, detail) ==
    [op |-> "create_group", caller |-> caller, member_ids |-> member_ids,
     status |-> status, detail |-> detail]

\* the lists that list(set(payload.member_ids)) can be (the order of a set is
\* not specified), with the creator appended when it is not in it
ServiceMemberIds(caller, member_ids) ==
    LET ids == {member_ids[i] : i \in DOMAIN member_ids}
        orders == {s \in [1..Cardinality(ids) -> ids] :
                      \A i, j \in DOMAIN s : i # j => s[i] # s[j]}
    IN  {IF caller \in ids THEN s ELSE Append(s, caller) : s \in orders}

\* f"User {user_id} not found."
UserNotFound(user_id) == "User " \o ToString(user_id) \o " not found."

\* a session whose flushed rows stay in the table when it closes
RolledBack_FlushKept(table, flushed) == table \cup flushed

\* the request's session is closed without a commit (get_db's "async with"
\* after an exception, or db.rollback()): the rows it flushed are gone
RolledBack(table, flushed) == table

\* POST /groups: the route removes duplicates from payload.member_ids and adds
\* the creator; create_group flushes the Group, looks up each member in turn
\* (404 at the first that does not exist), inserts one GroupMember per user and
\* commits (400 on IntegrityError).
\* The request is one step: nothing it writes is visible before its commit, and
\* the rows it reads are never changed.  The new rows take the next identifiers
\* of their sequences, the members in the order of the list.
CreateGroup(caller, member_ids) ==
    /\ UNCHANGED settings
    /\ CanStart
    /\ Cardinality(groups) < MaxGroups
    /\ UNCHANGED <<users, auth_users, likes, matches, clock, inflight>>
    /\ \E ids \in ServiceMemberIds(caller, member_ids) :
          LET group == [id |-> Cardinality(groups) + 1, is_active |-> TRUE]
              members == {[id |-> Cardinality(group_members) + i,
                           group_id |-> group.id, user_id |-> ids[i],
                           role |-> "member", is_active |-> TRUE] : i \in DOMAIN ids}
              missing == {i \in DOMAIN ids : ~\E r \in users : r.id = ids[i]}
          IN  IF missing # {}
                THEN /\ groups' = RolledBack(groups, {group})
                     /\ UNCHANGED group_members
                     /\ response' = CreateGroupResp(caller, ids, 404,
                           UserNotFound(ids[CHOOSE i \in missing :
                                               \A j \in missing : i <= j]))
              ELSE IF \E m \in members : ~MemberInsertOk(m)
                THEN /\ groups' = RolledBack(groups, {group})
                     /\ UNCHANGED group_members
                     /\ response' = CreateGroupResp(caller, ids, 400,
                           "Unable to create group. User may already be in group.")
              ELSE /\ groups' = groups \cup {group}
                   /\ group_members' = group_members \cup members
                   /\ response' = CreateGroupResp(caller, ids, 201, "")

\* the response to POST /groups/{group_id}/members sent by caller
AddMemberResp(group_id, caller, user_id, status, detail) ==
    [op |-> "add_member", group_id |-> group_id, caller |-> caller,
     user_id |-> user_id, status |-> status, detail |-> detail]

\* POST /groups/{group_id}/members up to db.commit(): the route's membership
\* query, then add_member_to_group's checks; the new GroupMember is pending.
AddMemberBegin(group_id, caller, user_id) ==
    /\ UNCHANGED settings
    /\ CanStart
    /\ UNCHANGED db
    /\ LET fail(status, detail) ==
               /\ response' = AddMemberResp(group_id, caller, user_id, status, detail)
               /\ UNCHANGED inflight
       IN  IF ~IsActiveMember(group_id, caller)
             THEN fail(403, "You must be a member of the group to add members.")
           ELSE IF ~GroupUsable(group_id)
             THEN fail(404, "Group not found.")
           ELSE IF ~\E u \in users : u.id = user_id
             THEN fail(404, "User not found.")
           ELSE IF \E m \in group_members : m.group_id = group_id /\ m.user_id = user_id
             THEN fail(400, "User is already a member of this group.")
           ELSE /\ inflight' = Open(
                      [op |-> "add_member", caller |-> caller,
                       member |-> [group_id |-> group_id, user_id |-> user_id,
                                   role |-> "member", is_active |-> TRUE]])
                /\ response' = NoResponse

\* add_member_to_group: db.commit() of the pending GroupMember, IntegrityError
\* handled (rollback, 400); then the 201 response of the route.
AddMemberCommit(q) ==
    /\ UNCHANGED settings
    /\ q \in Sessions
    /\ q.op = "add_member"
    /\ inflight' = Close(q)
    /\ UNCHANGED <<users, auth_users, groups, likes, matches, clock>>
    /\ IF MemberInsertOk(q.member)
         THEN /\ group_members' = group_members \cup
                     {[id |-> Cardinality(group_members) + 1] @@ q.member}
              /\ response' = AddMemberResp(q.member.group_id, q.caller,
                                           q.member.user_id, 201, "")
         ELSE /\ group_members' = group_members
              /\ response' = AddMemberResp(q.member.group_id, q.caller,
                                           q.member.user_id, 400,
                                           "Unable to add member to group.")

\* ------------------------------------------------------------------ signup
\* A password is kept as its number of one-byte (ASCII) characters and its
\* number of two-byte characters: enough to tell len(password) from
\* len(password.encode("utf-8")).
PasswordAsciiCounts == {5, 71, 72}
Passwords == [ascii : PasswordAsciiCounts, wide : 0..MaxWide]
Emails == {1, 2}
PhoneNumbers == {NULL, 1}

\* users.pictures is NULL, or an array of URLs
NoList == [null |-> TRUE, list |-> <<>>]
List(urls) == [null |-> FALSE, list |-> urls]

\* user.pictures or []
PicturesOrEmpty(pictures) == IF pictures.null THEN <<>> ELSE pictures.list

\* len(password): characters
PasswordLen(password) == password.ascii + password.wide

\* len(password.encode("utf-8")): bytes
Utf8Len(password) == password.ascii + 2 * password.wide

\* SignUpRequest.password: Field(min_length=8, max_length=72)
PasswordMinLength == 8
PasswordMaxLength == 72

\* a schema whose max_length would count encoded bytes
PasswordSchemaOk_Bytes(password) ==
    PasswordLen(password) >= PasswordMinLength /\ Utf8Len(password) <= PasswordMaxLength

PasswordSchemaOk(password) ==
    /\ PasswordLen(password) >= PasswordMinLength
    /\ PasswordLen(password) <= PasswordMaxLength

\* validate_password_length: if len(password.encode("utf-8")) > 72: raise ValueError
BcryptMaxBytes == 72
PasswordFitsBcrypt(password) == Utf8Len(password) <= BcryptMaxBytes

\* pwd_context.hash(password): verify(p, h) holds exactly for the hashed password
PasswordHash(password) == [bcrypt |-> password]

\* get_auth_user_by_email(db, data.email) finds a row
EmailRegistered(email) == \E a \in auth_users : a.email = email

\* User(name=..., email=data.email, phone_number=data.phone_number,
\* pictures=data.pictures, ...), id = uuid4()
NewUser(data) ==
    [id |-> Cardinality(users) + 1, email |-> data.email,
     phone_number |-> data.phone_number, pictures |-> data.pictures]

\* an AuthUser built with an email of its own instead of data.email
NewAuthUser_OwnEmail(data, password_hash, profile) ==
    [id |-> <<"auth", Cardinality(auth_users) + 1>>, email |-> 1,
     password_hash |-> password_hash, is_active |-> TRUE, user_id |-> profile.id,
     last_login |-> NULL]

\* AuthUser(email=data.email, password_hash=password_hash, profile=profile), id = uuid4()
NewAuthUser(data, password_hash, profile) ==
    [id |-> <<"auth", Cardinality(auth_users) + 1>>, email |-> data.email,
     password_hash |-> password_hash, is_active |-> TRUE, user_id |-> profile.id,
     last_login |-> NULL]

\* users: email unique, phone_number unique (NULLs do not collide)
UserInsertOk(row) ==
    /\ ~\E u \in users : u.email = row.email
    /\ row.phone_number = NULL \/ ~\E u \in users : u.phone_number = row.phone_number

\* auth_users: email unique, user_id unique
AuthUserInsertOk(row) ==
    /\ ~\E a \in auth_users : a.email = row.email
    /\ ~\E a \in auth_users : a.user_id = row.user_id

\* a flush in which no INSERT can fail
SignupFlushOk_NoConstraint(user_row, auth_row) == TRUE

\* the flush of db.commit(): INSERT INTO users, then INSERT INTO auth_users;
\* either can raise IntegrityError
SignupFlushOk(user_row, auth_row) == UserInsertOk(user_row) /\ AuthUserInsertOk(auth_row)

\* the response to the signup request with payload data
SignupResp(data, status, detail) ==
    [op |-> "signup", email |-> data.email, password |-> data.password,
     status |-> status, detail |-> detail]

\* POST /auth/signup up to db.commit(): request validation (422), the
\* existence check, the hashing step; then the two rows are pending.
SignupBegin(email, password, phone_number) ==
    /\ UNCHANGED settings
    /\ CanStart
    /\ UNCHANGED db
    /\ LET data == [email |-> email, password |-> password,
                    phone_number |-> phone_number, pictures |-> NoList]
           fail(status, detail) ==
               /\ response' = SignupResp(data, status, detail)
               /\ UNCHANGED inflight
       IN  IF ~PasswordSchemaOk(password)
             THEN fail(422, "validation error")
           ELSE IF EmailRegistered(email)
             THEN fail(400, "Email is already registered.")
           ELSE IF ~PasswordFitsBcrypt(password)
             THEN fail(400, "Password exceeds bcrypt 72-byte limit.")
           ELSE /\ inflight' = Open([op |-> "signup", data |-> data,
                                     password_hash |-> PasswordHash(password)])
                /\ response' = NoResponse

\* create_user_with_auth: db.commit() with its IntegrityError handler (rollback,
\* 400), then the 201 response of the route.
SignupCommit(q) ==
    /\ UNCHANGED settings
    /\ q \in Sessions
    /\ q.op = "signup"
    /\ inflight' = Close(q)
    /\ UNCHANGED <<groups, group_members, likes, matches, clock>>
    /\ LET profile == NewUser(q.data)
           auth_user == NewAuthUser(q.data, q.password_hash, profile)
       IN  IF SignupFlushOk(profile, auth_user)
             THEN /\ users' = users \cup {profile}
                  /\ auth_users' = auth_users \cup {auth_user}
                  /\ response' = SignupResp(q.data, 201, "")
             ELSE /\ UNCHANGED <<users, auth_users>>
                  /\ response' = SignupResp(q.data, 400,
                                     "Unable to create user with the provided details.")

\* ------------------------------------------------------------------ tokens
\* str(auth_user.id), str(user_id): the 36-character text of a UUID value.  The
\* text of a number (digits only) is in another format.
Str(id) == [format |-> "uuid", text |-> id]

\* UUID(subject): the value back from its text, ValueError for any other text
ParseUUID(subject) ==
    IF subject.format = "uuid" THEN [ok |-> TRUE, value |-> subject.text]
                               ELSE [ok |-> FALSE]

\* int(subject): a number from digits, ValueError for any other text
ParseInt(subject) ==
    IF subject.format = "decimal" THEN [ok |-> TRUE, value |-> subject.text]
                                  ELSE [ok |-> FALSE]

\* settings.access_token_expire_minutes, settings.refresh_token_expire_minutes
AccessTokenExpireMinutes == 15
RefreshTokenExpireMinutes == 10080

\* _create_token + jwt.encode: the payload, signed with the server's secret.
\* iat and exp are kept as the lifetime exp - iat; the minutes since iat are given
\* when the token is presented.
CreateToken(token_type, subject, expires_minutes, additional_claims) ==
    [signed |-> TRUE, type |-> token_type, sub |-> subject,
     lifetime |-> expires_minutes, user_id |-> additional_claims.user_id]

\* the token pair for a subject and a profile
TokenPair(subject, user_id) ==
    LET claims == [user_id |-> Str(user_id)]
    IN  [access_token |-> CreateToken("access", Str(subject),
                                      AccessTokenExpireMinutes, claims),
         refresh_token |-> CreateToken("refresh", Str(subject),
                                       RefreshTokenExpireMinutes, claims)]

\* a token pair issued for one fixed subject, whoever logs in
IssueTokens_FixedSubject(auth_user_id, user_id) ==
    TokenPair(<<"auth", 1>>, user_id)

\* _issue_tokens(auth_user.id, user_id=auth_user.user_id)
IssueTokens(auth_user_id, user_id) ==
    LET claims == [user_id |-> Str(user_id)]
    IN  [access_token |-> CreateToken("access", Str(auth_user_id),
                                      AccessTokenExpireMinutes, claims),
         refresh_token |-> CreateToken("refresh", Str(auth_user_id),
                                       RefreshTokenExpireMinutes, claims)]

\* a credential is a token and the minutes since it was issued
\* decode_token: jwt.decode checks the signature and exp; JWTError otherwise
DecodeOk(credential) ==
    credential.token.signed /\ credential.age <= credential.token.lifetime

\* get_auth_user_by_id: the rows with this identifier (none or one)
AuthUsersById(id) == {a \in auth_users : a.id = id}

\* a dependency that accepts a decodable token of either type
GetCurrentUser_AnyType(credential) ==
    LET token == credential.token
        reject(detail) == [status |-> 401, detail |-> detail, auth_user |-> NULL]
    IN  IF ~DecodeOk(credential)
          THEN reject("Invalid authentication credentials.")
        ELSE IF ~ParseUUID(token.sub).ok
          THEN reject("Invalid authentication credentials.")
        ELSE LET found == AuthUsersById(ParseUUID(token.sub).value)
             IN  IF found = {} \/ \E a \in found : ~a.is_active
                   THEN reject("User not found or inactive.")
                 ELSE [status |-> 200, detail |-> "",
                       auth_user |-> CHOOSE a \in found : TRUE]

\* get_current_user: the AuthUser of a bearer credential, or the 401 raised
\* before the route handler is entered
GetCurrentUser(credential) ==
    LET token == credential.token
        reject(detail) == [status |-> 401, detail |-> detail, auth_user |-> NULL]
    IN  IF ~DecodeOk(credential)
          THEN reject("Invalid authentication credentials.")
        ELSE IF token.type # "access"
          THEN reject("Invalid token type.")
        ELSE IF ~ParseUUID(token.sub).ok
          THEN reject("Invalid authentication credentials.")
        ELSE LET found == AuthUsersById(ParseUUID(token.sub).value)
             IN  IF found = {} \/ \E a \in found : ~a.is_active
                   THEN reject("User not found or inactive.")
                 ELSE [status |-> 200, detail |-> "",
                       auth_user |-> CHOOSE a \in found : TRUE]

\* an account whose rows an operator has removed since its tokens were issued
RemovedAuthUser == [id |-> <<"auth", 0>>, user_id |-> 0]

\* the tokens a client can hold: those issued for an account, and copies of them
\* signed with another key
IssuedTokens ==
    UNION {{p.access_token, p.refresh_token} :
              p \in {IssueTokens(a.id, a.user_id) :
                        a \in {[id |-> r.id, user_id |-> r.user_id] : r \in auth_users}
                              \cup {RemovedAuthUser}}}

\* the credential made of a token presented as soon as it is issued
Fresh(token) == [token |-> token, age |-> 0]

\* the credentials a request can carry: an issued token presented at once or one
\* minute after its exp, or a copy signed with another key
Credentials ==
    {Fresh(t) : t \in IssuedTokens}
    \cup {[token |-> t, age |-> t.lifetime + 1] : t \in IssuedTokens}
    \cup {Fresh([t EXCEPT !.signed = FALSE]) : t \in IssuedTokens}

\* ------------------------------------------------------------------ login
\* LoginRequest.password: Field(min_length=1, max_length=72)
LoginPasswordMinLength == 1
LoginSchemaOk(password) ==
    /\ PasswordLen(password) >= LoginPasswordMinLength
    /\ PasswordLen(password) <= PasswordMaxLength

\* pwd_context.verify(plain_password, hashed_password)
VerifyPassword(plain_password, hashed_password) ==
    hashed_password = PasswordHash(plain_password)

\* an authenticate_user that looks at is_active before the password
AuthenticateUser_ActiveFirst(email, password) ==
    LET found == {a \in auth_users : a.email = email}
        fail(status, detail) == [status |-> status, detail |-> detail, auth_user |-> NULL]
    IN  IF found = {}
          THEN fail(401, "Invalid email or password.")
        ELSE LET auth_user == CHOOSE a \in found : TRUE
             IN  IF ~auth_user.is_active
                   THEN fail(403, "User account is inactive.")
                 ELSE IF ~PasswordFitsBcrypt(password)
                   THEN fail(400, "Password exceeds bcrypt 72-byte limit.")
                 ELSE IF ~VerifyPassword(password, auth_user.password_hash)
                   THEN fail(401, "Invalid email or password.")
                 ELSE [status |-> 200, detail |-> "", auth_user |-> auth_user]

\* authenticate_user up to the assignment of last_login, with the mapping of
\* its result by the login route: the AuthUser to log in, or the error response
AuthenticateUser(email, password) ==
    LET found == {a \in auth_users : a.email = email}
        fail(status, detail) == [status |-> status, detail |-> detail, auth_user |-> NULL]
    IN  IF found = {}
          THEN fail(401, "Invalid email or password.")
        ELSE LET auth_user == CHOOSE a \in found : TRUE
             IN  IF ~PasswordFitsBcrypt(password)
                   THEN fail(400, "Password exceeds bcrypt 72-byte limit.")
                 ELSE IF ~VerifyPassword(password, auth_user.password_hash)
                   THEN fail(401, "Invalid email or password.")
                 ELSE IF ~auth_user.is_active
                   THEN fail(403, "User account is inactive.")
                 ELSE [status |-> 200, detail |-> "", auth_user |-> auth_user]

\* the response to the login request
LoginResp(email, password, status, detail, tokens, user) ==
    [op |-> "login", email |-> email, password |-> password, status |-> status,
     detail |-> detail, tokens |-> tokens, user |-> user]

\* POST /auth/login up to db.commit(): request validation (422), the lookup and
\* the password checks, then auth_user.last_login = now is pending.  Of the loaded
\* AuthUser the session keeps the attributes read after the commit.
LoginBegin(email, password) ==
    /\ UNCHANGED settings
    /\ CanStart
    /\ clock <= MaxLogins
    /\ UNCHANGED <<users, auth_users, groups, group_members, likes, matches>>
    /\ LET out == AuthenticateUser(email, password)
           fail(status, detail) ==
               /\ response' = LoginResp(email, password, status, detail, NULL, NULL)
               /\ UNCHANGED <<inflight, clock>>
       IN  IF ~LoginSchemaOk(password)
             THEN fail(422, "validation error")
           ELSE IF out.status # 200
             THEN fail(out.status, out.detail)
           ELSE /\ inflight' = Open([op |-> "login", email |-> email,
                                     password |-> password,
                                     auth_user |-> [id |-> out.auth_user.id,
                                                    user_id |-> out.auth_user.user_id],
                                     last_login |-> clock])
                /\ clock' = clock + 1
                /\ response' = NoResponse

\* authenticate_user: db.commit() writes the changed attribute last_login of
\* the loaded row; then the route issues the tokens for the loaded AuthUser.
LoginCommit(q) ==
    /\ UNCHANGED settings
    /\ q \in Sessions
    /\ q.op = "login"
    /\ inflight' = Close(q)
    /\ UNCHANGED <<users, groups, group_members, likes, matches, clock>>
    /\ auth_users' = {IF a.id = q.auth_user.id
                        THEN [a EXCEPT !.last_login = q.last_login] ELSE a :
                      a \in auth_users}
    /\ response' = LoginResp(q.email, q.password, 200, "",
                             IssueTokens(q.auth_user.id, q.auth_user.user_id),
                             q.auth_user.user_id)

\* the response to a request carrying a credential
CredentialResp(op, credential, status, detail, auth_user_id, body) ==
    [op |-> op, credential |-> credential, status |-> status, detail |-> detail,
     auth_user_id |-> auth_user_id, body |-> body]

\* POST /auth/token/refresh
RefreshToken(credential) ==
    /\ UNCHANGED settings
    /\ CanStart
    /\ UNCHANGED <<db, inflight>>
    /\ LET token == credential.token
           fail(status, detail) ==
               response' = CredentialResp("refresh_token", credential, status, detail,
                                          NULL, NULL)
       IN  IF ~DecodeOk(credential)
             THEN fail(401, "Invalid refresh token.")
           ELSE IF token.type # "refresh"
             THEN fail(400, "Provided token is not a refresh token.")
           ELSE IF ~ParseInt(token.sub).ok
             THEN fail(401, "Invalid refresh token.")
           ELSE LET found == AuthUsersById(ParseInt(token.sub).value)
                IN  IF found = {} \/ \E a \in found : ~a.is_active
                      THEN fail(401, "Invalid or inactive user.")
                    ELSE LET auth_user == CHOOSE a \in found : TRUE
                         IN  response' =
                                CredentialResp("refresh_token", credential, 200, "",
                                    auth_user.id,
                                    IssueTokens(auth_user.id, auth_user.user_id))

\* GET /photos/: a protected route.  Its handler runs only with the AuthUser
\* that get_current_user returns, and answers with the profile's pictures.
GetUserPhotos(credential) ==
    /\ UNCHANGED settings
    /\ CanStart
    /\ UNCHANGED <<db, inflight>>
    /\ LET cur == GetCurrentUser(credential)
       IN  IF cur.status # 200
             THEN response' = CredentialResp("get_user_photos", credential, cur.status,
                                             cur.detail, NULL, NULL)
           ELSE LET user == CHOOSE u \in users : u.id = cur.auth_user.user_id
                IN  response' =
                       CredentialResp("get_user_photos", credential, 200, "",
                           cur.auth_user.id,
                           [pictures |-> PicturesOrEmpty(user.pictures)])

\* an operator clears is_active of an account (no route does)
Deactivate(id) ==
    /\ UNCHANGED settings
    /\ \E a \in auth_users : a.id = id /\ a.is_active
    /\ auth_users' = {IF a.id = id THEN [a EXCEPT !.is_active = FALSE] ELSE a :
                      a \in auth_users}
    /\ UNCHANGED <<users, groups, group_members, likes, matches, clock, inflight,
                   response>>

\* ------------------------------------------------------------------ photos
\* A URL is kept as the parts of its path; a part is a name with a number.
Part(kind, n) == [kind |-> kind, n |-> n]

\* A part of kind "photos" is a text that ends with "photos": Part("photos", 0)
\* is "photos" itself, Part("photos", n) a longer text such as "team-photos".
\* A part of kind "name" is a text without "photos" in it.
\* An optional setting (Optional[str]) is either None or a value.
Unset == [null |-> TRUE, path |-> <<>>]
Configured(path) == [null |-> FALSE, path |-> path]

\* S3_BUCKET_NAME set, S3_PHOTO_PREFIX "photos" (its default), no S3_ENDPOINT_URL
DefaultSettings ==
    [s3_bucket_name |-> Configured(<<Part("name", 1)>>),
     s3_photo_prefix |-> <<Part("photos", 0)>>,
     s3_endpoint_url |-> Unset]

\* _generate_s3_key: "{s3_photo_prefix}/{user_id}/{photo_id}.{extension}"
S3Key(user_id, photo_id) ==
    settings.s3_photo_prefix \o <<Part("user", user_id), Part("photo", photo_id)>>

\* the public URL of an object, as the path that urlparse finds in it:
\* "{s3_endpoint_url}/{bucket}/{s3_key}" when S3_ENDPOINT_URL is set, else
\* "https://{bucket}.s3.{region}.amazonaws.com/{s3_key}"
PublicUrl(s3_key) ==
    IF settings.s3_endpoint_url.null
      THEN [path |-> s3_key]
      ELSE [path |-> settings.s3_endpoint_url.path \o settings.s3_bucket_name.path
                       \o s3_key]

\* a URL given in the pictures of a signup payload: "https://example.com/photo1.jpg"
ExternalUrl == [path |-> <<Part("file", 1)>>]

\* delete_photo's key extraction: the path from its first "photos/" on (a part
\* that ends with "photos" and is followed by another; the key starts at the
\* "photos" inside it), else the last three parts of the path, else ValueError
ExtractKey(photo_url) ==
    LET path == photo_url.path
        at == {i \in 1..(Len(path) - 1) : path[i].kind = "photos"}
        photos_idx == CHOOSE i \in at : \A j \in at : i <= j
    IN  IF at # {}
          THEN [ok |-> TRUE,
                key |-> <<Part("photos", 0)>> \o SubSeq(path, photos_idx + 1, Len(path))]
        ELSE IF Len(path) >= 3
          THEN [ok |-> TRUE, key |-> SubSeq(path, Len(path) - 2, Len(path))]
        ELSE [ok |-> FALSE]

\* the elements of a list other than x, in order
RECURSIVE Without(_, _)
Without(list, x) ==
    IF list = <<>> THEN <<>>
    ELSE IF Head(list) = x THEN Without(Tail(list), x)
    ELSE <<Head(list)>> \o Without(Tail(list), x)

\* a check that finds every URL in the list
InPictures_Always(pictures, photo_url) == TRUE

\* "user.pictures and photo_url in user.pictures"
InPictures(pictures, photo_url) ==
    \E i \in DOMAIN PicturesOrEmpty(pictures) : PicturesOrEmpty(pictures)[i] = photo_url

\* the profile row of an AuthUser
ProfileOf(auth_user) == CHOOSE u \in users : u.id = auth_user.user_id

\* the response to a photo request of the profile user_id
PhotoResp(op, user_id, photo_url, status, detail, storage_calls) ==
    [op |-> op, user_id |-> user_id, url |-> photo_url, status |-> status,
     detail |-> detail, storage_calls |-> storage_calls]

\* the 401 of get_current_user for a photo request
PhotoUnauthorized(op, cur) == PhotoResp(op, NULL, NULL, cur.status, cur.detail, <<>>)

\* POST /photos/upload up to db.commit(): get_current_user loads the AuthUser
\* and its profile; s3_service.upload_photo requires a bucket name (500),
\* validates the file (400) and puts the
\* object under a new key (500 on ClientError); then the route changes the
\* profile in memory.  "user.pictures = []" is an assignment, which marks the
\* attribute as modified; "user.pictures.append(url)" changes the loaded list in
\* place, which the ORM does not see for a plain ARRAY column.
\* The photo id (uuid4) is a new value, taken from the clock.
UploadBegin(credential, file_ok, storage_ok) ==
    /\ UNCHANGED settings
    /\ CanStart
    /\ clock <= MaxUploads
    /\ UNCHANGED <<users, auth_users, groups, group_members, likes, matches>>
    /\ LET cur == GetCurrentUser(credential)
           fail(resp) ==
               /\ response' = resp
               /\ UNCHANGED <<inflight, clock>>
       IN  IF cur.status # 200
             THEN fail(PhotoUnauthorized("upload_photo", cur))
           ELSE LET user == ProfileOf(cur.auth_user)
                    s3_key == S3Key(user.id, clock)
                    url == PublicUrl(s3_key)
                    put == <<[call |-> "put_object", key |-> s3_key]>>
                IN  IF settings.s3_bucket_name.null
                      THEN fail(PhotoResp("upload_photo", user.id, NULL, 500,
                                          "S3 bucket not configured.", <<>>))
                    ELSE IF ~file_ok
                      THEN fail(PhotoResp("upload_photo", user.id, NULL, 400,
                                          "File must be an image.", <<>>))
                    ELSE IF ~storage_ok
                      THEN fail(PhotoResp("upload_photo", user.id, NULL, 500,
                                          "Failed to upload photo to S3", put))
                    ELSE /\ inflight' = Open(
                               [op |-> "upload_photo", user_id |-> user.id,
                                url |-> url, storage_calls |-> put,
                                pictures |-> List(Append(PicturesOrEmpty(user.pictures),
                                                         url)),
                                modified |-> user.pictures.null])
                         /\ clock' = clock + 1
                         /\ response' = NoResponse

\* the flush of db.commit(): UPDATE users SET pictures = ... for the attributes
\* marked as modified, none otherwise
FlushPictures(q) ==
    IF q.modified
      THEN users' = {IF u.id = q.user_id THEN [u EXCEPT !.pictures = q.pictures] ELSE u :
                     u \in users}
      ELSE users' = users

\* upload_photo: db.commit(), db.refresh(user), 201 with the URL
UploadCommit(q) ==
    /\ UNCHANGED settings
    /\ q \in Sessions
    /\ q.op = "upload_photo"
    /\ inflight' = Close(q)
    /\ UNCHANGED <<auth_users, groups, group_members, likes, matches, clock>>
    /\ FlushPictures(q)
    /\ response' = PhotoResp("upload_photo", q.user_id, q.url, 201, "", q.storage_calls)

\* detail of delete_photo's 500: "Failed to delete photo: {exc}"
FailedToDelete(cause) == <<"Failed to delete photo: ", cause>>

\* DELETE /photos/ up to db.commit(): get_current_user, the 404 check on the
\* loaded list, the key extraction, s3_service.delete_photo (ClientError -> 500),
\* then "user.pictures = [p for p in user.pictures if p != photo_url]", an
\* assignment.
DeleteBegin(credential, photo_url, storage_ok) ==
    /\ UNCHANGED settings
    /\ CanStart
    /\ UNCHANGED db
    /\ LET cur == GetCurrentUser(credential)
           fail(resp) ==
               /\ response' = resp
               /\ UNCHANGED inflight
       IN  IF cur.status # 200
             THEN fail(PhotoUnauthorized("delete_photo", cur))
           ELSE LET user == ProfileOf(cur.auth_user)
                    extracted == ExtractKey(photo_url)
                IN  IF ~InPictures(user.pictures, photo_url)
                      THEN fail(PhotoResp("delete_photo", user.id, photo_url, 404,
                                          "Photo not found.", <<>>))
                    ELSE IF ~extracted.ok
                      THEN fail(PhotoResp("delete_photo", user.id, photo_url, 500,
                                   FailedToDelete("Invalid photo URL format: cannot extract S3 key"),
                                   <<>>))
                    ELSE IF settings.s3_bucket_name.null
                      THEN fail(PhotoResp("delete_photo", user.id, photo_url, 500,
                                   FailedToDelete("500: S3 bucket not configured."),
                                   <<>>))
                    ELSE LET del == <<[call |-> "delete_object", key |-> extracted.key]>>
                         IN  IF ~storage_ok
                               THEN fail(PhotoResp("delete_photo", user.id, photo_url, 500,
                                            FailedToDelete("500: Failed to delete photo from S3"),
                                            del))
                             ELSE /\ inflight' = Open(
                                        [op |-> "delete_photo", user_id |-> user.id,
                                         url |-> photo_url, storage_calls |-> del,
                                         pictures |-> List(Without(user.pictures.list,
                                                                   photo_url)),
                                         modified |-> TRUE])
                                  /\ response' = NoResponse

\* delete_photo: db.commit(), 200
DeleteCommit(q) ==
    /\ UNCHANGED settings
    /\ q \in Sessions
    /\ q.op = "delete_photo"
    /\ inflight' = Close(q)
    /\ UNCHANGED <<auth_users, groups, group_members, likes, matches, clock>>
    /\ FlushPictures(q)
    /\ response' = PhotoResp("delete_photo", q.user_id, q.url, 200, "", q.storage_calls)

\* [url for url in picture_urls if url not in current_pictures]
InvalidUrls(picture_urls, current_pictures) ==
    {picture_urls[i] : i \in DOMAIN picture_urls} \
       {current_pictures[i] : i \in DOMAIN current_pictures}

\* PUT /photos/ up to db.commit(): get_current_user, the validation of the
\* submitted list against the loaded one (400), then "user.pictures =
\* picture_urls", an assignment.
UpdateBegin(credential, picture_urls) ==
    /\ UNCHANGED settings
    /\ CanStart
    /\ UNCHANGED db
    /\ LET cur == GetCurrentUser(credential)
           fail(resp) ==
               /\ response' = resp
               /\ UNCHANGED inflight
       IN  IF cur.status # 200
             THEN fail(PhotoUnauthorized("update_user_photos", cur))
           ELSE LET user == ProfileOf(cur.auth_user)
                IN  IF InvalidUrls(picture_urls, PicturesOrEmpty(user.pictures)) # {}
                      THEN fail(PhotoResp("update_user_photos", user.id, picture_urls,
                                          400, "Invalid photo URLs", <<>>))
                    ELSE /\ inflight' = Open(
                               [op |-> "update_user_photos", user_id |-> user.id,
                                url |-> picture_urls, storage_calls |-> <<>>,
                                pictures |-> List(picture_urls),
                                modified |-> TRUE])
                         /\ response' = NoResponse

\* update_user_photos: db.commit(), db.refresh(user), 200 with the stored list
UpdateCommit(q) ==
    /\ UNCHANGED settings
    /\ q \in Sessions
    /\ q.op = "update_user_photos"
    /\ inflight' = Close(q)
    /\ UNCHANGED <<auth_users, groups, group_members, likes, matches, clock>>
    /\ FlushPictures(q)
    /\ response' = PhotoResp("update_user_photos", q.user_id, q.url, 200, "", <<>>)

\* ------------------------------------------------------------------ matches
\* a query that looks at group1_id only
MatchesOfGroup_Group1Only(group_id) ==
    {m \in matches : m.group1_id = group_id /\ m.is_active}

\* select(Match).where((group1_id == :id) | (group2_id == :id), is_active == True)
MatchesOfGroup(group_id) ==
    {m \in matches :
        /\ m.group1_id = group_id \/ m.group2_id = group_id
        /\ m.is_active}

\* the orders in which ORDER BY matched_at DESC can return the rows (rows with
\* the same matched_at come in any order)
OrderedByMatchedAtDesc(rows) ==
    {s \in [1..Cardinality(rows) -> rows] :
        /\ \A i, j \in DOMAIN s : i # j => s[i] # s[j]
        /\ \A i, j \in DOMAIN s : i < j => s[i].matched_at >= s[j].matched_at}

MatchesResp(credential, group_id, status, detail, matches_found) ==
    [op |-> "get_group_matches", credential |-> credential, group_id |-> group_id,
     status |-> status, detail |-> detail, matches |-> matches_found]

\* GET /matching/groups/{group_id}/matches: get_current_user, then
\* get_group_matches
GetGroupMatches(credential, group_id) ==
    /\ UNCHANGED settings
    /\ CanStart
    /\ UNCHANGED <<db, inflight>>
    /\ LET cur == GetCurrentUser(credential)
       IN  IF cur.status # 200
             THEN response' = MatchesResp(credential, group_id, cur.status,
                                          cur.detail, <<>>)
           ELSE IF ~(\E g \in groups : g.id = group_id)
             THEN response' = MatchesResp(credential, group_id, 404,
                                          "Group not found.", <<>>)
           ELSE \E result \in OrderedByMatchedAtDesc(MatchesOfGroup(group_id)) :
                   response' = MatchesResp(credential, group_id, 200, "", result)

\* ------------------------------------------------------------------ specification
\* The reciprocal Like 1 -> 2 after create_like(1, 2) by user 1 and the approvals
\* of users 2, 3 (likee side) and 1 (liker side): matched, with its Match row.
ReciprocalLike ==
    [id |-> 1, liker_group_id |-> 1, likee_group_id |-> 2, initiator_user_id |-> 1,
     group_b_approvals_count |-> 2, group_b_required_count |-> 2,
     group_a_approvals_count |-> 1, group_a_required_count |-> 1,
     status |-> "matched", matched_at |-> 1]

ReciprocalMatch ==
    [id |-> 1, group1_id |-> 1, group2_id |-> 2, matched_at |-> 1, is_active |-> TRUE]

\* The database after the signups and create_group requests of the fixture, and
\* either no Like yet, or the Like 1 -> 2 already matched.  The requests of this
\* specification then work on the Like 2 -> 1 (liker group 2 needs 2 approvals,
\* likee group 1 needs 1).
Init ==
    /\ settings = DefaultSettings
    /\ users = {[id |-> u, email |-> u, phone_number |-> NULL, pictures |-> NoList] :
                     u \in UserIds}
    /\ auth_users = {[id |-> <<"auth", u>>, email |-> u,
                      password_hash |-> PasswordHash([ascii |-> 71, wide |-> 0]),
                      is_active |-> TRUE, user_id |-> u, last_login |-> NULL] :
                     u \in UserIds}
    /\ groups = {[id |-> g, is_active |-> TRUE] : g \in GroupIds}
    /\ group_members = InitMembers
    /\ inflight = EmptyBag
    /\ \/ /\ likes = {}
          /\ matches = {}
          /\ clock = 1
          /\ response = NoResponse
       \/ /\ likes = {ReciprocalLike}
          /\ matches = {ReciprocalMatch}
          /\ clock = 2
          /\ response = ApproveResp(1, 1, 200, "Match created!")

Next ==
    \/ \E a \in LikerInputs, b \in GroupIds, u \in UserIds : CreateLikeBegin(a, b, u)
    \/ \E q \in Sessions : CreateLikeCommit(q)
    \/ \E l \in 1..(Cardinality(likes) + 1), u \in UserIds : ApproveBegin(l, u)
    \/ \E q \in Sessions : ApproveCommit(q)

Spec == Init /\ [][Next]_vars

\* The signup specification: an empty database and the signup requests.
InitAuth ==
    /\ settings = DefaultSettings
    /\ users = {}
    /\ auth_users = {}
    /\ groups = {}
    /\ group_members = {}
    /\ likes = {}
    /\ matches = {}
    /\ clock = 1
    /\ inflight = EmptyBag
    /\ response = NoResponse

NextAuth ==
    \/ \E e \in Emails, p \in Passwords, ph \in PhoneNumbers : SignupBegin(e, p, ph)
    \/ \E q \in Sessions : SignupCommit(q)

SpecAuth == InitAuth /\ [][NextAuth]_vars

\* The login specification: an empty database; signups, logins, token
\* refreshes, requests to a protected route, and the operator's deactivation.
SignupPasswordInputs == {p \in Passwords : p.ascii = 71 /\ p.wide = 0}

InitLogin == InitAuth

NextLogin ==
    \/ \E e \in Emails, p \in SignupPasswordInputs : SignupBegin(e, p, NULL)
    \/ \E q \in Sessions : SignupCommit(q)
    \/ \E e \in Emails, p \in Passwords : LoginBegin(e, p)
    \/ \E q \in Sessions : LoginCommit(q)
    \/ \E c \in Credentials : RefreshToken(c)
    \/ \E c \in Credentials : GetUserPhotos(c)
    \/ \E a \in auth_users : Deactivate(a.id)

SpecLogin == InitLogin /\ [][NextLogin]_vars

\* The groups specification: the fixture's profiles and groups, no Like; the
\* add-member requests and the create_like requests between the two groups.
\* User 4 can create a group with user 3, named twice in the payload.
\* Members are added to group 2: user 3 is in it since its creation, user 4 is
\* not; and to the group that user 4 creates.  The callers are a member of group
\* 1, a member of group 2, and user 4.
GroupCreators == {4}
MemberIdsInputs == {<<3, 3>>}
AddMemberGroups == 2..MaxGroups
AddMemberInputs == {3, 4}
Callers == {1, 2, 4}

InitGroups ==
    /\ Init
    /\ likes = {}

NextGroups ==
    \/ \E c \in GroupCreators, ids \in MemberIdsInputs : CreateGroup(c, ids)
    \/ \E g \in AddMemberGroups, c \in Callers, u \in AddMemberInputs :
          AddMemberBegin(g, c, u)
    \/ \E q \in Sessions : AddMemberCommit(q)
    \/ \E a \in GroupIds, b \in GroupIds, u \in Callers : CreateLikeBegin(a, b, u)
    \/ \E q \in Sessions : CreateLikeCommit(q)

SpecGroups == InitGroups /\ [][NextGroups]_vars

\* The photos specification: user 1 signed up with one external URL in its
\* pictures, user 2 without pictures; both hold an access token.  Uploads,
\* deletions and reads of the photo list.
PhotoUserIds == {1, 2}

\* the credentials of the photo requests
PhotoCredentials ==
    {Fresh(IssueTokens(a.id, a.user_id).access_token) : a \in auth_users}

\* the URLs asked to be deleted: those in some list, and one made up
UrlInputs ==
    UNION {{PicturesOrEmpty(u.pictures)[i] : i \in DOMAIN PicturesOrEmpty(u.pictures)} :
              u \in users}
    \cup {PublicUrl(S3Key(1, 0))}

InitPhotos ==
    /\ settings = DefaultSettings
    /\ users = {[id |-> u, email |-> u, phone_number |-> NULL,
                 pictures |-> IF u = 1 THEN List(<<ExternalUrl>>) ELSE NoList] :
                u \in PhotoUserIds}
    /\ auth_users = {[id |-> <<"auth", u>>, email |-> u,
                      password_hash |-> PasswordHash([ascii |-> 71, wide |-> 0]),
                      is_active |-> TRUE, user_id |-> u, last_login |-> NULL] :
                     u \in PhotoUserIds}
    /\ groups = {}
    /\ group_members = {}
    /\ likes = {}
    /\ matches = {}
    /\ clock = 1
    /\ inflight = EmptyBag
    /\ response = NoResponse

NextPhotos ==
    \/ \E c \in PhotoCredentials, f \in BOOLEAN, ok \in BOOLEAN : UploadBegin(c, f, ok)
    \/ \E q \in Sessions : UploadCommit(q)
    \/ \E c \in PhotoCredentials, url \in UrlInputs, ok \in BOOLEAN :
          DeleteBegin(c, url, ok)
    \/ \E q \in Sessions : DeleteCommit(q)
    \/ \E c \in PhotoCredentials : GetUserPhotos(c)

SpecPhotos == InitPhotos /\ [][NextPhotos]_vars

\* The photo-list specification: user 1 signed up with two external URLs in its
\* pictures, user 2 without pictures.  PUT /photos/ with lists of up to two URLs
\* (those two and one in no list), and reads of the list.
ExternalUrls == {ExternalUrl, [path |-> <<Part("file", 2)>>]}

PictureListInputs ==
    LET U == ExternalUrls \cup {PublicUrl(S3Key(1, 0))}
    IN  {<<>>} \cup {<<a>> : a \in U} \cup {<<a, b>> : a \in U, b \in U}

InitPhotoList ==
    /\ settings = DefaultSettings
    /\ users = {[id |-> u, email |-> u, phone_number |-> NULL,
                 pictures |-> IF u = 1
                                THEN List(<<ExternalUrl, [path |-> <<Part("file", 2)>>]>>)
                                ELSE NoList] :
                u \in PhotoUserIds}
    /\ auth_users = {[id |-> <<"auth", u>>, email |-> u,
                      password_hash |-> PasswordHash([ascii |-> 71, wide |-> 0]),
                      is_active |-> TRUE, user_id |-> u, last_login |-> NULL] :
                     u \in PhotoUserIds}
    /\ groups = {}
    /\ group_members = {}
    /\ likes = {}
    /\ matches = {}
    /\ clock = 1
    /\ inflight = EmptyBag
    /\ response = NoResponse

NextPhotoList ==
    \/ \E c \in PhotoCredentials, urls \in PictureListInputs : UpdateBegin(c, urls)
    \/ \E q \in Sessions : UpdateCommit(q)
    \/ \E c \in PhotoCredentials : GetUserPhotos(c)

SpecPhotoList == InitPhotoList /\ [][NextPhotoList]_vars

\* --- GET /matching/groups/{group_id}/matches over the matches tables
MatchGroupIds == {1, 2, 3}

\* the latest matched_at of a stored Match
MaxMatchedAt == 2

\* the Match rows a table can hold: group1_id < group2_id (check_match_order);
\* matched_at is the time of the transaction that inserted the row; is_active
\* is cleared by an unmatch outside the routes
MatchRows ==
    {[id |-> p[1] + p[2] - 2, group1_id |-> p[1], group2_id |-> p[2],
      matched_at |-> t, is_active |-> act] :
        p \in {q \in MatchGroupIds \X MatchGroupIds : q[1] < q[2]},
        t \in 1..MaxMatchedAt, act \in BOOLEAN}

\* the group ids asked for: the groups, and one that does not exist
MatchGroupInputs == MatchGroupIds \cup {4}

\* the credentials of the requests: an access token and a refresh token
MatchCredentials ==
    {Fresh(IssueTokens(<<"auth", 1>>, 1).access_token),
     Fresh(IssueTokens(<<"auth", 1>>, 1).refresh_token)}

\* any matches table that satisfies uq_match
InitMatches ==
    /\ settings = DefaultSettings
    /\ users = {[id |-> u, email |-> u, phone_number |-> NULL, pictures |-> NoList] :
                     u \in UserIds}
    /\ auth_users = {[id |-> <<"auth", u>>, email |-> u,
                      password_hash |-> PasswordHash([ascii |-> 71, wide |-> 0]),
                      is_active |-> TRUE, user_id |-> u, last_login |-> NULL] :
                     u \in UserIds}
    /\ groups = {[id |-> g, is_active |-> TRUE] : g \in MatchGroupIds}
    /\ group_members = {}
    /\ likes = {}
    /\ matches \in {T \in SUBSET MatchRows :
                      \A m, n \in T :
                         (m.group1_id = n.group1_id /\ m.group2_id = n.group2_id)
                            => m = n}
    /\ clock = MaxMatchedAt + 1
    /\ inflight = EmptyBag
    /\ response = NoResponse

NextMatches ==
    \E c \in MatchCredentials, g \in MatchGroupInputs : GetGroupMatches(c, g)

SpecMatches == InitMatches /\ [][NextMatches]_vars

\* --- required counts: one Like 2 -> 1, members added to either group while
\* the approvals run.  User 4 is in no group at first; it is added to group g
\* by user g (user 1 is in group 1, user 2 in group 2).
RequiredLikers == {2}
RequiredLikees == {1}
RequiredNewMembers == {4}
RequiredApprovers == {1, 2}

InitRequired == InitGroups

NextRequired ==
    \/ \E a \in RequiredLikers, b \in RequiredLikees : CreateLikeBegin(a, b, 2)
    \/ \E q \in Sessions : CreateLikeCommit(q)
    \/ \E g \in GroupIds, u \in RequiredNewMembers : AddMemberBegin(g, g, u)
    \/ \E q \in Sessions : AddMemberCommit(q)
    \/ \E u \in RequiredApprovers : ApproveBegin(1, u)
    \/ \E q \in Sessions : ApproveCommit(q)

SpecRequired == InitRequired /\ [][NextRequired]_vars

\* --- a member of both groups: user 3, member of group 2 since its creation,
\* has been added to group 1; Like 2 -> 1 and its approvals
BothSidesMembers ==
    InitMembers \cup
       {[id |-> 4, group_id |-> 1, user_id |-> 3, role |-> "member", is_active |-> TRUE]}

BothSidesApprovers == {1, 2, 3}

InitBothSides ==
    /\ settings = DefaultSettings
    /\ users = {[id |-> u, email |-> u, phone_number |-> NULL, pictures |-> NoList] :
                     u \in UserIds}
    /\ auth_users = {[id |-> <<"auth", u>>, email |-> u,
                      password_hash |-> PasswordHash([ascii |-> 71, wide |-> 0]),
                      is_active |-> TRUE, user_id |-> u, last_login |-> NULL] :
                     u \in UserIds}
    /\ groups = {[id |-> g, is_active |-> TRUE] : g \in GroupIds}
    /\ group_members = BothSidesMembers
    /\ likes = {}
    /\ matches = {}
    /\ clock = 1
    /\ inflight = EmptyBag
    /\ response = NoResponse

NextBothSides ==
    \/ \E a \in LikerInputs, b \in GroupIds : CreateLikeBegin(a, b, 2)
    \/ \E q \in Sessions : CreateLikeCommit(q)
    \/ \E u \in BothSidesApprovers : ApproveBegin(1, u)
    \/ \E q \in Sessions : ApproveCommit(q)

SpecBothSides == InitBothSides /\ [][NextBothSides]_vars

\* --- repeated approvals: the two groups have two members each; of group 1
\* only user 1 approves, of group 2 only user 2
RepeatApprovers == {1, 2}

InitRepeat == InitBothSides

NextRepeat ==
    \/ \E a \in LikerInputs, b \in GroupIds : CreateLikeBegin(a, b, 2)
    \/ \E q \in Sessions : CreateLikeCommit(q)
    \/ \E u \in RepeatApprovers : ApproveBegin(1, u)
    \/ \E q \in Sessions : ApproveCommit(q)

SpecRepeat == InitRepeat /\ [][NextRepeat]_vars

\* --- create_group with member lists that name users that do not exist
\* (5 and 6), and add-member requests on the groups created
NewGroupPayloads ==
    {<<a>> : a \in {3, 5, 6}} \cup {<<a, b>> : a \in {3, 5, 6}, b \in {3, 5, 6}}

NewGroupCreators == {1, 4}

InitNewGroups == InitGroups

NextNewGroups ==
    \/ \E c \in NewGroupCreators, ids \in NewGroupPayloads : CreateGroup(c, ids)
    \/ \E g \in 3..MaxGroups, c \in NewGroupCreators, u \in {1, 2} :
          AddMemberBegin(g, c, u)
    \/ \E q \in Sessions : AddMemberCommit(q)

SpecNewGroups == InitNewGroups /\ [][NextNewGroups]_vars

\* --- the storage settings: bucket names "bucket" and "team-photos", or none;
\* prefixes "photos", "uploads", "uploads/photos" and "media/uploads"; no
\* endpoint, or an endpoint URL without a path, with the path "s3" or with the
\* path "my-photos"
BucketInputs ==
    {Unset, Configured(<<Part("name", 1)>>), Configured(<<Part("photos", 1)>>)}

PrefixInputs ==
    {<<Part("photos", 0)>>, <<Part("name", 2)>>,
     <<Part("name", 2), Part("photos", 0)>>, <<Part("name", 3), Part("name", 2)>>}

EndpointInputs ==
    {Unset, Configured(<<>>), Configured(<<Part("name", 4)>>),
     Configured(<<Part("photos", 2)>>)}

\* user 2 without pictures and with an access token; any settings
InitStorage ==
    /\ settings \in [s3_bucket_name : BucketInputs, s3_photo_prefix : PrefixInputs,
                     s3_endpoint_url : EndpointInputs]
    /\ users = {[id |-> 2, email |-> 2, phone_number |-> NULL, pictures |-> NoList]}
    /\ auth_users = {[id |-> <<"auth", 2>>, email |-> 2,
                      password_hash |-> PasswordHash([ascii |-> 71, wide |-> 0]),
                      is_active |-> TRUE, user_id |-> 2, last_login |-> NULL]}
    /\ groups = {}
    /\ group_members = {}
    /\ likes = {}
    /\ matches = {}
    /\ clock = 1
    /\ inflight = EmptyBag
    /\ response = NoResponse

NextStorage ==
    \/ \E c \in PhotoCredentials : UploadBegin(c, TRUE, TRUE)
    \/ \E q \in Sessions : UploadCommit(q)
    \/ \E c \in PhotoCredentials, u \in UrlInputs : DeleteBegin(c, u, TRUE)
    \/ \E q \in Sessions : DeleteCommit(q)

SpecStorage == InitStorage /\ [][NextStorage]_vars

\* ------------------------------------------------------------------ observations
\* the row of table L with identifier id
RowOf(L, id) == CHOOSE k \in L : k.id = id

\* the Match rows of M between the two groups of a Like
PairMatches(M, like) ==
    {m \in M : {m.group1_id, m.group2_id} = {like.liker_group_id, like.likee_group_id}}

\* this step is the commit of the approve_like session q
CommitsApprove(q) ==
    /\ q \in Sessions
    /\ q.op = "approve_like"
    /\ inflight' = Close(q)

\* this step is the start of an approve_like request of user u on Like id:
\* it is answered at once, or it leaves a session open
BeginsApprove(id, u) ==
    \/ /\ response'.op = "approve_like"
       /\ response'.like_id = id
       /\ response'.user_id = u
       /\ inflight' = inflight
    \/ /\ response' = NoResponse
       /\ \E q \in BagToSet(inflight') :
             /\ q.op = "approve_like"
             /\ q.like.id = id
             /\ q.user_id = u
             /\ inflight' = Open(q)

OnLikeeSide(q) == q.user_group_id = q.like.likee_group_id
OnLikerSide(q) == q.user_group_id = q.like.liker_group_id /\ ~OnLikeeSide(q)
LikeeDone(k) == k.group_b_approvals_count >= k.group_b_required_count
LikerDone(k) == k.group_a_approvals_count >= k.group_a_required_count

\* ------------------------------------------------------------------ C1
\* The three kinds of approval of the scenario, for an approval that arrives
\* after the previous one has committed (the Like it loaded is the row in the
\* table): the likee-side approval that completes the likee side, a liker-side
\* approval that does not complete the liker side, and the liker-side approval
\* that completes it after the likee side.
C1_LikeeCompletes(q) ==
    /\ OnLikeeSide(q)
    /\ q.like.status = "pending_group_b"
    /\ q.like.group_b_approvals_count + 1 >= q.like.group_b_required_count

C1_LikerNotYet(q) ==
    /\ OnLikerSide(q)
    /\ q.like.group_a_approvals_count + 1 < q.like.group_a_required_count

C1_LikerCompletes(q) ==
    /\ OnLikerSide(q)
    /\ LikeeDone(q.like)
    /\ q.like.group_a_approvals_count + 1 >= q.like.group_a_required_count
    /\ ~LikerDone(q.like)

\* A Match row appears only in the commit of a liker-side approval that leaves
\* the liker count at or above its required count with the likee side complete.
C1_NoEarlierCall ==
    matches' # matches =>
        \E q \in Sessions :
            /\ CommitsApprove(q)
            /\ OnLikerSide(q)
            /\ LikeeDone(q.like)
            /\ LikerDone(RowOf(likes', q.like.id))
            /\ RowOf(likes', q.like.id).status = "matched"

\* C1: likee group done -> pending_group_a and no Match
\* made; liker approval 1 of 2 -> still pending_group_a, no Match made; the
\* liker approval that completes the liker side -> matched and exactly one
\* Match row for the two groups; and no earlier call creates the Match.
C1_Original ==
    [][ /\ \A q \in Sessions :
              (CommitsApprove(q) /\ q.like \in likes) =>
                  LET after == RowOf(likes', q.like.id)
                  IN  /\ C1_LikeeCompletes(q) =>
                            /\ after.status = "pending_group_a"
                            /\ matches' = matches
                      /\ C1_LikerNotYet(q) =>
                            /\ after.status = q.like.status
                            /\ matches' = matches
                      /\ C1_LikerCompletes(q) =>
                            /\ after.status = "matched"
                            /\ Cardinality(PairMatches(matches', q.like)) = 1
        /\ C1_NoEarlierCall ]_vars

\* What the code does in the scenario of C1: as C1 says while the two groups have
\* no Match row yet; when they have one (the reciprocal Like matched before),
\* the completing liker approval fails and changes no row.
C1_WithoutEarlierMatch ==
    [][ /\ \A q \in Sessions :
              (CommitsApprove(q) /\ q.like \in likes) =>
                  LET after == RowOf(likes', q.like.id)
                  IN  /\ C1_LikeeCompletes(q) =>
                            /\ after.status = "pending_group_a"
                            /\ matches' = matches
                      /\ C1_LikerNotYet(q) =>
                            /\ after.status = q.like.status
                            /\ matches' = matches
                      /\ C1_LikerCompletes(q) =>
                            IF PairMatches(matches, q.like) = {}
                              THEN /\ after.status = "matched"
                                   /\ Cardinality(PairMatches(matches', q.like)) = 1
                              ELSE /\ likes' = likes
                                   /\ matches' = matches
                                   /\ response'.status >= 400
        /\ C1_NoEarlierCall ]_vars

\* The scenario ran to its last approval and stopped short of matched: likee
\* side 1 of 1, liker side still 1 of 2 and status pending_group_a after the
\* second liker approval was answered 500.
C1_Witness ==
    \E k \in likes :
        /\ k.group_a_required_count = 2 /\ k.group_b_required_count = 1
        /\ k.group_a_approvals_count = 1 /\ k.group_b_approvals_count = 1
        /\ k.status = "pending_group_a"
        /\ response.op = "approve_like" /\ response.like_id = k.id
        /\ response.status = 500
        /\ inflight = EmptyBag

\* ------------------------------------------------------------------ C2
\* C2: every Like whose two approval counts have reached their required
\* counts has status matched and a Match row for its two groups.
C2_AllApprovedIsMatched ==
    \A k \in likes :
        (LikeeDone(k) /\ LikerDone(k)) =>
            (k.status = "matched" /\ PairMatches(matches, k) # {})

\* every member approved, liker group first: both counts complete, no request in
\* flight, and the Like is neither matched nor has the pair a Match row
C2_Witness ==
    \E k \in likes :
        /\ LikeeDone(k) /\ LikerDone(k)
        /\ k.group_a_approvals_count = k.group_a_required_count
        /\ k.group_b_approvals_count = k.group_b_required_count
        /\ k.status = "pending_group_a"
        /\ matches = {}
        /\ inflight = EmptyBag

\* ------------------------------------------------------------------ C3
\* C3: every Match row has group1_id < group2_id, and no two Match rows have
\* the same (group1_id, group2_id).
C3_MatchCanonical ==
    /\ \A m \in matches : m.group1_id < m.group2_id
    /\ \A m1, m2 \in matches :
          (m1.group1_id = m2.group1_id /\ m1.group2_id = m2.group2_id) => m1 = m2

\* a Like whose liker is the larger group has matched: its Match row is (1, 2)
C3_Witness ==
    \E k \in likes, m \in matches :
        /\ k.liker_group_id > k.likee_group_id
        /\ k.status = "matched"
        /\ m.group1_id = k.likee_group_id
        /\ m.group2_id = k.liker_group_id

\* ------------------------------------------------------------------ C4
\* C4 (its state part): a Match row for two groups exists exactly when some
\* Like between them has status matched, and a Like has matched_at set exactly
\* when its status is matched.
C4_MatchIffMatched ==
    /\ \A m \in matches : \E k \in likes : m \in PairMatches(matches, k) /\ k.status = "matched"
    /\ \A k \in likes : k.status = "matched" => PairMatches(matches, k) # {}
    /\ \A k \in likes : (k.matched_at # NULL) <=> (k.status = "matched")

\* a Match row whose Like went back from matched to pending_group_a
C4_Witness ==
    /\ matches # {}
    /\ \A k \in likes : k.status # "matched"
    /\ \E k \in likes : k.matched_at # NULL /\ k.status = "pending_group_a"

\* ------------------------------------------------------------------ C5
\* C5: an approve_like commit that would insert a Match row for a pair of groups
\* that already has one changes no row and is answered 400 or 409.
C5_DuplicateMatchIsClientError ==
    [][ \A q \in Sessions :
          ( /\ CommitsApprove(q)
            /\ ApproveInMemory(q.like, q.user_group_id, q.txn_time).match_created # {}
            /\ PairMatches(matches, q.like) # {} ) =>
              /\ matches' = matches
              /\ likes' = likes
              /\ response'.status \in {400, 409} ]_vars

\* the reciprocal Like's final approval hit the unique constraint: answered 500,
\* still one Match row
C5_Witness ==
    /\ response.op = "approve_like"
    /\ response.status = ApproveIntegrityErrorStatus
    /\ response.detail = "Internal Server Error"
    /\ Cardinality(matches) = 1

\* ------------------------------------------------------------------ C6
\* C6: an approve_like request on a Like that is matched or rejected is answered
\* 400 "Like is already {status}." whoever the caller is, opens no session and
\* changes no Like and no Match row.
C6_FinalizedLikeRejected ==
    [][ \A k \in likes, u \in UserIds :
          (k.status \in {"matched", "rejected"} /\ BeginsApprove(k.id, u)) =>
              /\ response' = [op |-> "approve_like", like_id |-> k.id, user_id |-> u,
                              status |-> 400,
                              detail |-> "Like is already " \o k.status \o "."]
              /\ inflight' = inflight
              /\ likes' = likes
              /\ matches' = matches ]_vars

\* a user in neither group got the 400 on a matched Like
C6_Witness ==
    \E k \in likes :
        /\ k.status = "matched"
        /\ response.op = "approve_like"
        /\ response.like_id = k.id
        /\ response.status = 400
        /\ response.detail = "Like is already matched."
        /\ ~IsActiveMember(k.liker_group_id, response.user_id)
        /\ ~IsActiveMember(k.likee_group_id, response.user_id)

\* ------------------------------------------------------------------ C7
\* C7: an approve_like request on a Like that is not finalized, by a user with no
\* active membership in its liker group nor in its likee group, is answered 403,
\* opens no session and changes no Like and no Match row.
C7_NonMemberForbidden ==
    [][ \A k \in likes, u \in UserIds :
          ( /\ k.status \notin {"matched", "rejected"}
            /\ ~IsActiveMember(k.liker_group_id, u)
            /\ ~IsActiveMember(k.likee_group_id, u)
            /\ BeginsApprove(k.id, u) ) =>
              /\ response'.status = 403
              /\ response'.detail = "User is not a member of either group in this like."
              /\ inflight' = inflight
              /\ likes' = likes
              /\ matches' = matches ]_vars

\* the outsider got the 403 on a Like that already has approvals
C7_Witness ==
    \E k \in likes :
        /\ k.status = "pending_group_a"
        /\ response.op = "approve_like"
        /\ response.like_id = k.id
        /\ response.status = 403
        /\ ~IsActiveMember(k.liker_group_id, response.user_id)
        /\ ~IsActiveMember(k.likee_group_id, response.user_id)

\* ------------------------------------------------------------------ C8
\* C8: Users and AuthUsers are in one-to-one correspondence: every AuthUser's
\* user_id is the id of exactly one User, which has the same email, and every
\* User has exactly one AuthUser.
C8_OneToOne ==
    /\ \A a \in auth_users :
          /\ Cardinality({u \in users : u.id = a.user_id}) = 1
          /\ \A u \in users : u.id = a.user_id => u.email = a.email
    /\ \A u \in users : Cardinality({a \in auth_users : a.user_id = u.id}) = 1

\* two signups succeeded and a third failed at commit
C8_Witness ==
    /\ Cardinality(users) = 2
    /\ Cardinality(auth_users) = 2
    /\ response.op = "signup"
    /\ response.status = 400
    /\ response.detail = "Unable to create user with the provided details."

\* ------------------------------------------------------------------ C9
\* this step is the start of a signup request for email e with password p: it
\* is answered at once, or it leaves a session open
BeginsSignup(e, p) ==
    \/ /\ response'.op = "signup"
       /\ response'.email = e
       /\ response'.password = p
       /\ inflight' = inflight
    \/ /\ response' = NoResponse
       /\ \E q \in BagToSet(inflight') :
             /\ q.op = "signup"
             /\ q.data.email = e
             /\ q.data.password = p
             /\ inflight' = Open(q)

\* this step is the commit of the signup session q
CommitsSignup(q) ==
    /\ q \in Sessions
    /\ q.op = "signup"
    /\ inflight' = Close(q)

\* no User and no AuthUser row is added or changed
SignupTablesUnchanged == users' = users /\ auth_users' = auth_users

\* this signup request is answered with the status, opens no session and adds no row
SignupRejected(status) ==
    /\ response'.op = "signup"
    /\ response'.status = status
    /\ inflight' = inflight
    /\ SignupTablesUnchanged

\* at most one User and one AuthUser per email
C9_OneRowPerEmail ==
    \A e \in Emails :
        /\ Cardinality({u \in users : u.email = e}) <= 1
        /\ Cardinality({a \in auth_users : a.email = e}) <= 1

\* C9: a valid signup for an email that signed up before is answered 400 and
\* adds no row; of two signups for the same email that both passed the
\* existence check, the first to commit is answered 201 and adds one User and one
\* AuthUser, the second is answered 400 and adds no row; there is never more than
\* one User or AuthUser for an email.
C9_SecondSignupRejected ==
    [][ /\ \A e \in Emails, p \in Passwords :
              ( /\ \E u \in users : u.email = e
                /\ PasswordLen(p) >= 8 /\ PasswordLen(p) <= 72
                /\ BeginsSignup(e, p) ) =>
                  /\ SignupRejected(400)
                  /\ response'.detail = "Email is already registered."
        /\ \A q \in Sessions :
              CommitsSignup(q) =>
                  IF \E u \in users : u.email = q.data.email
                    THEN /\ response'.status = 400
                         /\ SignupTablesUnchanged
                  ELSE IF q.data.phone_number # NULL
                          /\ \E u \in users : u.phone_number = q.data.phone_number
                    THEN /\ response'.status = 400
                         /\ SignupTablesUnchanged
                  ELSE /\ response'.status = 201
                       /\ Cardinality(users') = Cardinality(users) + 1
                       /\ Cardinality(auth_users') = Cardinality(auth_users) + 1
        /\ C9_OneRowPerEmail' ]_vars

\* two signups for one email raced: the loser got its 400 at commit (no phone
\* number is stored, so the email is what collided), one row of each kind exists
C9_Witness ==
    /\ response.op = "signup"
    /\ response.status = 400
    /\ response.detail = "Unable to create user with the provided details."
    /\ \A u \in users : u.phone_number = NULL
    /\ Cardinality({u \in users : u.email = response.email}) = 1
    /\ Cardinality({a \in auth_users : a.email = response.email}) = 1

\* ------------------------------------------------------------------ C10
\* this step leaves the rows of a signup with password p pending in a session:
\* the request got through validation and hashing
SignupAccepted(p) ==
    \E q \in BagToSet(inflight') :
        /\ q.op = "signup"
        /\ q.data.password = p
        /\ inflight' = Open(q)

\* C10 as the spec states it: a password of exactly 72 encoded bytes is accepted
\* (for an email not yet registered), and every password of 73 or more encoded
\* bytes is rejected with 422, creating no row.
C10_Original ==
    [][ \A e \in Emails, p \in Passwords :
          BeginsSignup(e, p) =>
              /\ (Utf8Len(p) = 72 /\ ~\E u \in users : u.email = e) => SignupAccepted(p)
              /\ Utf8Len(p) >= 73 => SignupRejected(422) ]_vars

\* C10 amended: a password of exactly 72 encoded bytes is accepted; a password
\* of more than 72 characters is rejected with 422; a password of at most 72
\* characters whose encoding is 73 bytes or more passes request validation and is
\* rejected with 400 (by the hashing step, or before it by the existence check
\* when the email is registered); no rejected request creates a row.
C10_Amended ==
    [][ \A e \in Emails, p \in Passwords :
          BeginsSignup(e, p) =>
              /\ (Utf8Len(p) = 72 /\ ~\E u \in users : u.email = e) => SignupAccepted(p)
              /\ PasswordLen(p) >= 73 => SignupRejected(422)
              /\ (Utf8Len(p) >= 73 /\ PasswordLen(p) <= 72) =>
                    /\ SignupRejected(400)
                    /\ response'.detail =
                          IF \E u \in users : u.email = e
                            THEN "Email is already registered."
                            ELSE "Password exceeds bcrypt 72-byte limit." ]_vars

\* a signup with 72 characters in 73 bytes was turned down by the hashing step
\* after an account whose password has exactly 72 bytes had been created
C10_Witness ==
    /\ response.op = "signup"
    /\ response.status = 400
    /\ response.detail = "Password exceeds bcrypt 72-byte limit."
    /\ PasswordLen(response.password) = 72
    /\ Utf8Len(response.password) = 73
    /\ \E a \in auth_users : Utf8Len(a.password_hash.bcrypt) = 72

\* ------------------------------------------------------------------ C11
\* C11: an active account can log in with the email and password it signed up
\* with, and every 200 login response carries the profile and a token pair whose
\* access token has type "access", sub = the text of the AuthUser's id and
\* user_id = the text of the profile's id; presented as a bearer credential the
\* access token resolves to that same AuthUser (as long as it is active).
C11_LoginIssuesTokens ==
    /\ \A a \in auth_users, p \in Passwords :
          (a.is_active /\ VerifyPassword(p, a.password_hash))
              => AuthenticateUser(a.email, p).status = 200
    /\ (response.op = "login" /\ response.status = 200) =>
          \E a \in auth_users :
             LET access == response.tokens.access_token
             IN  /\ a.email = response.email
                 /\ VerifyPassword(response.password, a.password_hash)
                 /\ response.user = a.user_id
                 /\ access.type = "access"
                 /\ access.sub = Str(a.id)
                 /\ access.user_id = Str(a.user_id)
                 /\ a.is_active =>
                       /\ GetCurrentUser(Fresh(access)).status = 200
                       /\ GetCurrentUser(Fresh(access)).auth_user = a

\* the protected route has answered 200 to the access token of an account that
\* has logged in, as that account
C11_Witness ==
    /\ response.op = "get_user_photos"
    /\ response.status = 200
    /\ \E a \in auth_users :
          /\ a.last_login # NULL
          /\ response.credential.token = IssueTokens(a.id, a.user_id).access_token
          /\ response.auth_user_id = a.id

\* ------------------------------------------------------------------ C12
\* get_current_user accepts exactly the credentials that decode, have type
\* "access" and whose sub is the id of an existing, active AuthUser, which it
\* returns; it answers 401 to every other credential
C12_Accepts ==
    \A c \in Credentials :
       LET cur == GetCurrentUser(c)
       IN  IF /\ DecodeOk(c)
              /\ c.token.type = "access"
              /\ \E a \in auth_users : Str(a.id) = c.token.sub /\ a.is_active
             THEN /\ cur.status = 200
                  /\ Str(cur.auth_user.id) = c.token.sub
                  /\ cur.auth_user \in auth_users
             ELSE cur.status = 401

\* a request to the protected route is answered 401 without running the handler
\* unless its credential is accepted, and then the handler runs as that AuthUser
C12_RouteStep ==
    (response'.op = "get_user_photos" /\ auth_users' = auth_users) =>
       LET cur == GetCurrentUser(response'.credential)
       IN  /\ response'.status = cur.status
           /\ db' = db
           /\ IF cur.status = 200
                 THEN response'.auth_user_id = cur.auth_user.id
                 ELSE response'.status = 401 /\ response'.detail = cur.detail

\* C12: a protected route accepts a bearer token only if it decodes, has type
\* "access" and its sub resolves to an existing AuthUser with is_active true; a
\* refresh token, and an access token whose AuthUser is missing or inactive, are
\* rejected with 401 and the route handler is not run.
C12_BearerAccepted == []C12_Accepts /\ [][C12_RouteStep]_vars

\* the protected route has answered 401 to an unexpired, well-signed access token
\* whose account has been deactivated
C12_Witness ==
    /\ response.op = "get_user_photos"
    /\ response.status = 401
    /\ DecodeOk(response.credential)
    /\ response.credential.token.type = "access"
    /\ \E a \in auth_users :
          Str(a.id) = response.credential.token.sub /\ ~a.is_active

\* ------------------------------------------------------------------ C13
\* the credential is an issued refresh token, unexpired, of an existing and
\* active account
LiveRefreshCredential(c) ==
    /\ DecodeOk(c)
    /\ c.token.type = "refresh"
    /\ \E a \in auth_users : a.is_active /\ c.token.sub = Str(a.id)

\* C13: a refresh token issued by signup or login, presented unexpired to
\* POST /auth/token/refresh while its AuthUser exists and is active, is answered
\* 200 with a token pair whose subject is the same AuthUser.
C13_RefreshExchanges ==
    [][(/\ response'.op = "refresh_token"
        /\ auth_users' = auth_users
        /\ LiveRefreshCredential(response'.credential))
       => /\ response'.status = 200
          /\ response'.body.access_token.sub = response'.credential.token.sub
          /\ response'.body.refresh_token.sub = response'.credential.token.sub]_vars

\* the refresh token of an active account that has logged in, presented at once,
\* has been refused
C13_Witness ==
    /\ response.op = "refresh_token"
    /\ response.status = 401
    /\ response.detail = "Invalid refresh token."
    /\ LiveRefreshCredential(response.credential)
    /\ response.credential.age = 0
    /\ \E a \in auth_users :
          /\ a.last_login # NULL
          /\ response.credential.token = IssueTokens(a.id, a.user_id).refresh_token

\* ------------------------------------------------------------------ C14
\* what the client sees of a login attempt
LoginAnswer(email, password) ==
    LET out == AuthenticateUser(email, password)
    IN  <<out.status, out.detail>>

\* the password is not the one of the account registered under the email
WrongPasswordFor(email, password) ==
    \E a \in auth_users : a.email = email /\ ~VerifyPassword(password, a.password_hash)

\* C14: for every password that passes request validation, login answers an
\* email with no AuthUser and a registered email with a non-matching password
\* alike: 401 "Invalid email or password.".
C14_LoginIndistinguishable ==
    \A p \in Passwords, e1 \in Emails, e2 \in Emails :
       (LoginSchemaOk(p) /\ ~EmailRegistered(e1) /\ WrongPasswordFor(e2, p)) =>
          /\ LoginAnswer(e1, p) = <<401, "Invalid email or password.">>
          /\ LoginAnswer(e2, p) = LoginAnswer(e1, p)

\* a login with a non-matching password of at most 72 characters has been
\* answered 400 for a registered email while another email is not registered
C14_Witness ==
    /\ response.op = "login"
    /\ response.status = 400
    /\ LoginSchemaOk(response.password)
    /\ WrongPasswordFor(response.email, response.password)
    /\ \E e \in Emails :
          /\ ~EmailRegistered(e)
          /\ LoginAnswer(e, response.password) = <<401, "Invalid email or password.">>

\* ------------------------------------------------------------------ C15
\* the answer to a non-matching password, whatever the account's is_active
RefusedAnswer(password) ==
    IF PasswordFitsBcrypt(password)
      THEN <<401, "Invalid email or password.">>
      ELSE <<400, "Password exceeds bcrypt 72-byte limit.">>

\* every account keeps its last_login in this step
LastLoginUnchanged ==
    \A a \in auth_users : \E b \in auth_users' : b.id = a.id /\ b.last_login = a.last_login

\* a login that is not answered 200 changes no last_login
C15_RefusedLoginKeepsLastLogin ==
    (response'.op = "login" /\ response'.status # 200) => LastLoginUnchanged

MemberRows(g, u) == {m \in group_members : m.group_id = g /\ m.user_id = u}

\* at most one GroupMember row per (group_id, user_id)
C16_OneRowPerPair ==
    \A m1 \in group_members, m2 \in group_members :
       (m1.group_id = m2.group_id /\ m1.user_id = m2.user_id) => m1 = m2

\* an add-member request for a user who has a row in the group adds no row; it
\* is answered 400 (403 if the caller is not an active member of the group)
C16_DuplicateAddRejected ==
    (response'.op = "add_member"
     /\ MemberRows(response'.group_id, response'.user_id) # {}) =>
        /\ group_members' = group_members
        /\ response'.status =
              IF \E m \in MemberRows(response'.group_id, response'.caller) : m.is_active
                THEN 400 ELSE 403

\* C16: in every reachable state there is at most one GroupMember row per
\* (group_id, user_id); adding a user who is already in the group (since its
\* creation, or by an earlier or concurrent add-member call) is rejected with 400
\* and adds no row.
C16_MemberUnique == []C16_OneRowPerPair /\ [][C16_DuplicateAddRejected]_vars

\* of two add-member requests in flight for the same user, the second to commit
\* has been refused by the unique constraint; and the group that user 4 created
\* with user 3 named twice has one row for user 3
C16_Witness ==
    /\ response.op = "add_member"
    /\ response.status = 400
    /\ response.detail = "Unable to add member to group."
    /\ Cardinality(MemberRows(response.group_id, response.user_id)) = 1
    /\ Cardinality(MemberRows(3, 3)) = 1

\* ------------------------------------------------------------------ C17
\* user u has an active GroupMember row in group g
ActiveIn(g, u) == \E m \in MemberRows(g, u) : m.is_active

\* every Like was created by an active member of its liker group, and every
\* pending GroupMember or Like belongs to a request of an active member of the
\* acting group
C17_ActorsAreMembers ==
    /\ \A k \in likes : ActiveIn(k.liker_group_id, k.initiator_user_id)
    /\ \A q \in Sessions :
          /\ q.op = "add_member" => ActiveIn(q.member.group_id, q.caller)
          /\ q.op = "create_like" => ActiveIn(q.like.liker_group_id,
                                               q.like.initiator_user_id)

\* an add-member request of a caller who is not an active member of the group
\* is answered 403 and changes no table; GroupMember rows are added only by
\* create_group and by the add-member requests of active members
C17_AddMemberStep ==
    /\ (response'.op = "add_member"
        /\ ~ActiveIn(response'.group_id, response'.caller)) =>
           /\ response'.status = 403
           /\ db' = db
           /\ inflight' = inflight
    /\ group_members' # group_members =>
           /\ response'.op \in {"add_member", "create_group"}
           /\ response'.status = 201
           /\ likes' = likes

\* a create_like request of a caller who is not an active member of the liker
\* group is answered 403, changes no table and leaves nothing pending
C17_CreateLikeStep ==
    \A a \in GroupIds, b \in GroupIds, u \in Callers :
       (response'.op = "create_like" /\ ~ActiveIn(a, u) /\ CreateLikeBegin(a, b, u)) =>
          /\ response' = CreateLikeResp(403, "You must be a member of the liker group.")
          /\ db' = db
          /\ inflight' = inflight

\* C17: POST /groups/{group_id}/members adds a row only if the caller is an
\* active member of group_id, and POST /matching/likes creates a Like only if the
\* caller is an active member of liker_group_id; otherwise the response is 403 and
\* no GroupMember or Like row is created.
C17_MembersOnly ==
    /\ []C17_ActorsAreMembers
    /\ [][C17_AddMemberStep]_vars
    /\ [][C17_CreateLikeStep]_vars

\* user 4 has been refused as a non-member of group 2, after a member of group
\* 2 has created a Like
C17_Witness ==
    /\ response.op = "add_member"
    /\ response.status = 403
    /\ response.caller = 4
    /\ response.group_id = 2
    /\ ~ActiveIn(2, 4)
    /\ \E k \in likes : k.liker_group_id = 2

\* ------------------------------------------------------------------ C18
\* the Like rows from group a to group b
LikeRows(a, b) == {k \in likes : k.liker_group_id = a /\ k.likee_group_id = b}

\* at most one Like per ordered pair of groups, and none from a group to itself
C18_OnePerOrderedPair ==
    /\ \A a \in GroupIds, b \in GroupIds : Cardinality(LikeRows(a, b)) <= 1
    /\ \A k \in likes : k.liker_group_id # k.likee_group_id

\* a create_like request of a member for its own group, or for a pair that has
\* a Like, is answered 400, adds no row and leaves nothing pending
C18_BeginStep ==
    \A a \in GroupIds, b \in GroupIds, u \in Callers :
       (/\ response'.op = "create_like"
        /\ ActiveIn(a, u)
        /\ a = b \/ LikeRows(a, b) # {}
        /\ CreateLikeBegin(a, b, u)) =>
          /\ response'.status = 400
          /\ likes' = likes
          /\ inflight' = inflight

\* the commit of a create_like request adds no row and answers 400 if the pair
\* has got a Like in the meantime; otherwise it adds exactly its row and answers
\* 201, whether or not the opposite Like exists
C18_CommitStep ==
    \A q \in Sessions :
       (q.op = "create_like" /\ inflight' = Close(q)) =>
          IF LikeRows(q.like.liker_group_id, q.like.likee_group_id) # {}
            THEN /\ likes' = likes
                 /\ response' = CreateLikeResp(400, "Unable to create like.")
            ELSE /\ response'.status = 201
                 /\ \E k \in likes' :
                       /\ k \notin likes
                       /\ likes' = likes \cup {k}
                       /\ k.liker_group_id = q.like.liker_group_id
                       /\ k.likee_group_id = q.like.likee_group_id
                       /\ k.status = "pending_group_b"
                       /\ k.group_a_approvals_count = 0
                       /\ k.group_b_approvals_count = 0

\* C18: in every reachable state there is at most one Like per ordered
\* (liker_group_id, likee_group_id) pair and no Like of a group for itself; a
\* second create_like for the same ordered pair (sequential or racing) and a
\* self-like are rejected with 400 and add no row, while a Like B -> A can be
\* created while A -> B exists and is a separate row.
C18_LikeUnique ==
    /\ []C18_OnePerOrderedPair
    /\ [][C18_BeginStep]_vars
    /\ [][C18_CommitStep]_vars

\* the Likes 1 -> 2 and 2 -> 1 exist as two rows with their own required
\* counts, and the slower of two racing create_like requests has been refused
C18_Witness ==
    /\ response = CreateLikeResp(400, "Unable to create like.")
    /\ \E k1 \in LikeRows(1, 2), k2 \in LikeRows(2, 1) :
          /\ k1.id # k2.id
          /\ k1.group_a_required_count # k2.group_a_required_count

\* ------------------------------------------------------------------ C19
\* the stored pictures of profile id in table T, as a list
StoredPictures(T, id) == PicturesOrEmpty((CHOOSE u \in T : u.id = id).pictures)

\* C19: a successful POST /photos/upload appends exactly one URL, the one in its
\* response, to the end of the caller's stored pictures (a one-element list if
\* there was none), leaves the earlier entries and every other user's list
\* unchanged, and a later GET /photos/ reads a list that contains the URL.
C19_UploadAppends ==
    [][\A q \in Sessions :
          (q.op = "upload_photo" /\ inflight' = Close(q)) =>
             /\ response'.status = 201
             /\ response'.url = q.url
             /\ StoredPictures(users', q.user_id)
                   = Append(StoredPictures(users, q.user_id), q.url)
             /\ \A u \in users : u.id # q.user_id => u \in users'
             /\ InPictures((CHOOSE u \in users' : u.id = q.user_id).pictures,
                           response'.url)]_vars

\* an upload has been answered 201 with a URL, no other request is in flight,
\* and the caller's stored pictures, which had an entry before, do not contain
\* that URL
C19_Witness ==
    /\ response.op = "upload_photo"
    /\ response.status = 201
    /\ inflight = EmptyBag
    /\ StoredPictures(users, response.user_id) # <<>>
    /\ ~InPictures((CHOOSE u \in users : u.id = response.user_id).pictures, response.url)

\* ------------------------------------------------------------------ C20
\* url is an entry of the list
Listed(list, url) == \E i \in DOMAIN list : list[i] = url

\* the one storage call of a deletion of url
OneDeleteCall(url) == <<[call |-> "delete_object", key |-> ExtractKey(url).key]>>

\* a delete request leaves a deletion pending only for a URL in the caller's
\* stored list, with exactly one storage-delete call issued
C20_OpenStep ==
    \A q \in BagToSet(inflight') :
       (q.op = "delete_photo" /\ inflight' = Open(q)) =>
          /\ Listed(StoredPictures(users, q.user_id), q.url)
          /\ ExtractKey(q.url).ok
          /\ q.storage_calls = OneDeleteCall(q.url)
          /\ users' = users

\* the answers of an authenticated delete request.  At once: 404 without a
\* storage call for a URL not in the list; 500 "Failed to delete photo: ..." for a
\* URL in the list whose key cannot be extracted (no storage call) or whose
\* storage delete failed (one call); the stored lists unchanged in all three.
\* At commit: 200 after exactly one storage-delete call, the URL no longer in
\* the caller's stored list, the other users' lists unchanged.
C20_AnswerStep ==
    (response'.op = "delete_photo" /\ response'.status # 401) =>
       LET id == response'.user_id
           url == response'.url
           calls == response'.storage_calls
       IN  IF inflight' = inflight
             THEN /\ users' = users
                  /\ IF ~Listed(StoredPictures(users, id), url)
                        THEN response'.status = 404 /\ calls = <<>>
                        ELSE /\ response'.status = 500
                             /\ response'.detail[1] = "Failed to delete photo: "
                             /\ calls = IF ExtractKey(url).ok THEN OneDeleteCall(url)
                                                              ELSE <<>>
             ELSE /\ response'.status = 200
                  /\ calls = OneDeleteCall(url)
                  /\ ~Listed(StoredPictures(users', id), url)
                  /\ \A u \in users : u.id # id => u \in users'

\* C20: DELETE /photos/ issues a storage delete only for a URL in the caller's
\* pictures list: 404 with no storage call and the list unchanged for a URL not
\* in the list; exactly one storage-delete call and then the removal of the URL
\* for a URL in the list; 500 "Failed to delete photo: ..." with the stored list
\* unchanged if the key extraction or the storage delete fails.
C20_DeleteGuarded == [][C20_OpenStep]_vars /\ [][C20_AnswerStep]_vars

\* a deletion has been answered 200 after one storage-delete call for the key
\* of an uploaded photo, and the URL is gone from the caller's stored list
C20_Witness ==
    /\ response.op = "delete_photo"
    /\ response.status = 200
    /\ response.storage_calls
          = <<[call |-> "delete_object", key |-> S3Key(response.user_id, 1)]>>
    /\ ~Listed(StoredPictures(users, response.user_id), response.url)

\* ------------------------------------------------------------------ C21
\* the URLs of a list
UrlSet(list) == {list[i] : i \in DOMAIN list}

\* a PUT /photos/ answered at once: 400 with the stored lists unchanged, for a
\* submitted list with a URL that is not in the caller's stored list
C21_RejectStep ==
    (/\ response'.op = "update_user_photos"
     /\ response'.status # 401
     /\ inflight' = inflight) =>
        /\ ~(UrlSet(response'.url) \subseteq
               UrlSet(StoredPictures(users, response'.user_id)))
        /\ response'.status = 400
        /\ users' = users

\* the commit of a PUT /photos/: 200, the stored list equal to the submitted
\* one, and no URL in it that the stored list did not have
C21_CommitStep ==
    \A q \in Sessions :
       (q.op = "update_user_photos" /\ inflight' = Close(q)) =>
          /\ response'.status = 200
          /\ StoredPictures(users', q.user_id) = q.url
          /\ UrlSet(StoredPictures(users', q.user_id))
                \subseteq UrlSet(StoredPictures(users, q.user_id))

\* C21: PUT /photos/ with a list containing a URL absent from the caller's
\* current pictures is rejected with 400 and leaves the stored list unchanged;
\* with a list of URLs of the current list it succeeds and the stored list
\* equals the submitted one; the set of URLs in a user's list never gains a
\* member through this endpoint.
C21_UpdateNeverAdds == [][C21_RejectStep]_vars /\ [][C21_CommitStep]_vars

\* a PUT /photos/ that passed the validation is waiting to commit a list with a
\* URL that another PUT has meanwhile removed from the stored list
C21_Witness ==
    \E q \in Sessions :
       /\ q.op = "update_user_photos"
       /\ response.op = "update_user_photos"
       /\ response.status = 200
       /\ response.user_id = q.user_id
       /\ ~(UrlSet(q.url) \subseteq UrlSet(StoredPictures(users, q.user_id)))

\* ------------------------------------------------------------------ C22
\* C22: get_group_matches for an existing group returns exactly the Match rows
\* in which the group is group1 or group2 and is_active is true, each once,
\* sorted by matched_at descending; for a group that does not exist it answers
\* 404 'Group not found.' without results.
C22_GroupMatches ==
    (response.op = "get_group_matches" /\ response.status # 401) =>
        LET found == response.matches
        IN  IF response.group_id \in {g.id : g \in groups}
              THEN /\ response.status = 200
                   /\ {found[i] : i \in DOMAIN found} =
                        {m \in matches :
                            /\ response.group_id \in {m.group1_id, m.group2_id}
                            /\ m.is_active}
                   /\ \A i, j \in DOMAIN found :
                         i < j => /\ found[i] # found[j]
                                  /\ found[i].matched_at >= found[j].matched_at
              ELSE /\ response.status = 404
                   /\ response.detail = "Group not found."
                   /\ found = <<>>

\* group 2 has three Match rows, two active with different matched_at (one as
\* group1, one as group2) and the answer lists these two
C22_Witness ==
    /\ response.op = "get_group_matches"
    /\ response.status = 200
    /\ response.group_id = 2
    /\ Len(response.matches) = 2
    /\ response.matches[1].group1_id = 2
    /\ response.matches[2].group2_id = 2
    /\ response.matches[1].matched_at > response.matches[2].matched_at
    /\ \E m \in matches : m.group2_id = 3 /\ m.group1_id = 1 /\ ~m.is_active

\* ------------------------------------------------------------------ C23
\* the moves of a Like's status that one step may make
C23_Forward ==
    {<<"pending_group_b", "pending_group_a">>, <<"pending_group_a", "matched">>}

\* a Like row that a step adds starts in pending_group_b
C23_StartsPending ==
    \A k \in likes' :
       (~\E old \in likes : old.id = k.id) => k.status = "pending_group_b"

\* a step leaves the status of a Like as it is or moves it one stage forward
C23_MovesForward ==
    \A old \in likes :
       LET new == RowOf(likes', old.id)
       IN  \/ new.status = old.status
           \/ <<old.status, new.status>> \in C23_Forward

\* a step changes nothing of a matched Like
C23_MatchedIsTerminal ==
    \A old \in likes :
       old.status = "matched" =>
          LET new == RowOf(likes', old.id)
          IN  /\ new.status = "matched"
              /\ new.group_a_approvals_count = old.group_a_approvals_count
              /\ new.group_b_approvals_count = old.group_b_approvals_count
              /\ new.matched_at = old.matched_at

\* C23: a Like's status only moves forward along pending_group_b ->
\* pending_group_a -> matched: every Like starts in pending_group_b, no step
\* takes it back or from pending_group_b directly to matched, once matched no
\* operation changes its status, counts or matched_at, and rejected and expired
\* are never reached.
C23_StatusForwardOnly ==
    /\ [][C23_StartsPending]_vars
    /\ [][C23_MovesForward]_vars
    /\ [][C23_MatchedIsTerminal]_vars
    /\ [](\A k \in likes : k.status \notin {"rejected", "expired"})

\* a Like that was matched (it has its matched_at and the two groups have their
\* Match) is back in pending_group_a
C23_Witness ==
    \E k \in likes :
       /\ k.status = "pending_group_a"
       /\ k.matched_at # NULL
       /\ k.group_a_approvals_count >= k.group_a_required_count
       /\ PairMatches(matches, k) # {}

\* ------------------------------------------------------------------ C24
\* no step lowers a stored approval count
C24_CountsStep ==
    \A old \in likes :
       LET new == RowOf(likes', old.id)
       IN  /\ new.group_a_approvals_count >= old.group_a_approvals_count
           /\ new.group_b_approvals_count >= old.group_b_approvals_count

\* C24: the stored approval counts of a Like never decrease: in every step,
\* including interleaved approve_like requests on the same Like, the liker
\* side's and the likee side's count are at least what they were before.
C24_CountsNeverDecrease == [][C24_CountsStep]_vars

\* an approve_like session that loaded the Like with fewer approvals of its
\* side than are stored now is about to commit
C24_Witness ==
    \E q \in Sessions :
       /\ q.op = "approve_like"
       /\ q.user_group_id = q.like.liker_group_id
       /\ \E k \in likes :
             /\ k.id = q.like.id
             /\ k.group_a_approvals_count > q.like.group_a_approvals_count + 1

\* ------------------------------------------------------------------ C25
\* the number of active members of group g in the table
ActiveMembersOf(g) == {m \in group_members : m.group_id = g /\ m.is_active}

\* a create_like request that goes on to insert holds a Like whose required
\* counts are the numbers of active members of its two groups
C25_BeginStep ==
    \A q \in BagToSet(inflight') :
       (q.op = "create_like" /\ inflight' = Open(q)) =>
          /\ q.like.group_a_required_count =
                Cardinality(ActiveMembersOf(q.like.liker_group_id))
          /\ q.like.group_b_required_count =
                Cardinality(ActiveMembersOf(q.like.likee_group_id))

\* the Like is inserted with these counts, both at least 1
C25_CommitStep ==
    \A q \in Sessions :
       (q.op = "create_like" /\ inflight' = Close(q)) =>
          \A k \in likes' \ likes :
             /\ k.group_a_required_count = q.like.group_a_required_count
             /\ k.group_b_required_count = q.like.group_b_required_count
             /\ k.group_a_required_count >= 1
             /\ k.group_b_required_count >= 1

\* no step changes the required counts of a stored Like
C25_KeepStep ==
    \A old \in likes :
       LET new == RowOf(likes', old.id)
       IN  /\ new.group_a_required_count = old.group_a_required_count
           /\ new.group_b_required_count = old.group_b_required_count

\* C25: a Like's group_a_required_count and group_b_required_count equal the
\* number of active members of the liker and the likee group at the moment
\* create_like ran, are both at least 1, and are unchanged by every later
\* operation, including add_member_to_group on either group while approvals
\* are in progress.
C25_RequiredCountsFixed ==
    /\ [][C25_BeginStep]_vars
    /\ [][C25_CommitStep]_vars
    /\ [][C25_KeepStep]_vars

\* approvals are in progress on a Like whose two groups have each gained a
\* member since create_like: required 2 and 1, active members 3 and 2
C25_Witness ==
    \E k \in likes :
       /\ k.group_a_required_count = 2
       /\ k.group_b_required_count = 1
       /\ Cardinality(ActiveMembersOf(k.liker_group_id)) = 3
       /\ Cardinality(ActiveMembersOf(k.likee_group_id)) = 2
       /\ k.group_b_approvals_count >= 1
       /\ k.group_a_approvals_count >= 1

\* ------------------------------------------------------------------ C26
\* user u is an active member of both groups of the Like
InBothGroups(like, u) ==
    /\ \E m \in group_members :
          m.user_id = u /\ m.is_active /\ m.group_id = like.liker_group_id
    /\ \E m \in group_members :
          m.user_id = u /\ m.is_active /\ m.group_id = like.likee_group_id

\* the approval of a member of both groups is taken for the likee group
C26_BeginStep ==
    \A q \in BagToSet(inflight') :
       (/\ q.op = "approve_like"
        /\ inflight' = Open(q)
        /\ InBothGroups(q.like, q.user_id)) =>
           q.user_group_id = q.like.likee_group_id

\* its commit adds one to the likee count it loaded and leaves the liker count
C26_CommitStep ==
    \A q \in Sessions :
       (/\ CommitsApprove(q)
        /\ InBothGroups(q.like, q.user_id)
        /\ response'.status = 200) =>
           LET old == RowOf(likes, q.like.id)
               new == RowOf(likes', q.like.id)
           IN  /\ new.group_b_approvals_count = q.like.group_b_approvals_count + 1
               /\ new.group_a_approvals_count = old.group_a_approvals_count

\* C26: when the approving user is an active member of both the liker group and
\* the likee group of a Like, approve_like counts the approval for the likee
\* side (increments group_b_approvals_count and not group_a_approvals_count),
\* whatever order the user's membership rows are returned in.
C26_BothCountsForLikee == [][C26_BeginStep]_vars /\ [][C26_CommitStep]_vars

\* the first approval of the Like, by the member of both groups, was counted
\* for the liker side: the likee side is still waiting
C26_Witness ==
    /\ response.op = "approve_like"
    /\ response.status = 200
    /\ InBothGroups(RowOf(likes, response.like_id), response.user_id)
    /\ RowOf(likes, response.like_id).group_a_approvals_count = 1
    /\ RowOf(likes, response.like_id).group_b_approvals_count = 0
    /\ RowOf(likes, response.like_id).status = "pending_group_b"
    /\ inflight = EmptyBag

\* ------------------------------------------------------------------ C27
\* an approve_like request is refused at once only for a missing Like, a
\* finalized Like or a caller outside both groups, never for earlier approvals
C27_BeginStep ==
    (/\ response'.op = "approve_like"
     /\ inflight' = inflight
     /\ response'.status # 404) =>
        LET like == RowOf(likes, response'.like_id)
        IN  \/ /\ response'.status = 400
               /\ like.status = "matched"
            \/ /\ response'.status = 403
               /\ ~\E m \in group_members :
                     /\ m.user_id = response'.user_id
                     /\ m.group_id \in {like.liker_group_id, like.likee_group_id}

\* every approval that commits adds one to the count it loaded, whoever
\* approved before; the likee count reaching the required count moves the Like to
\* pending_group_a, the liker count reaching it once the likee side is done
\* moves it to matched
C27_CommitStep ==
    \A q \in Sessions :
       (CommitsApprove(q) /\ response'.status = 200) =>
          LET new == RowOf(likes', q.like.id)
          IN  IF q.user_group_id = q.like.likee_group_id
                THEN /\ new.group_b_approvals_count = q.like.group_b_approvals_count + 1
                     /\ (/\ q.like.status = "pending_group_b"
                         /\ new.group_b_approvals_count >= new.group_b_required_count)
                           => new.status = "pending_group_a"
                ELSE /\ new.group_a_approvals_count = q.like.group_a_approvals_count + 1
                     /\ (/\ q.like.status = "pending_group_a"
                         /\ q.like.group_b_approvals_count >= new.group_b_required_count
                         /\ new.group_a_approvals_count >= new.group_a_required_count)
                           => new.status = "matched"

C28_SomeMissing ==
    \E i \in DOMAIN response'.member_ids :
       ~\E r \in users : r.id = response'.member_ids[i]

\* a create_group request with a missing user is answered 404 naming the first
\* missing identifier of its list, and no Group or GroupMember row is added
C28_FailStep ==
    (response'.op = "create_group" /\ C28_SomeMissing) =>
        /\ response'.status = 404
        /\ \E i \in DOMAIN response'.member_ids :
              /\ ~\E r \in users : r.id = response'.member_ids[i]
              /\ \A j \in 1..(i - 1) : \E r \in users : r.id = response'.member_ids[j]
              /\ response'.detail =
                    "User " \o ToString(response'.member_ids[i]) \o " not found."
        /\ groups' = groups
        /\ group_members' = group_members

\* a create_group request answered 201 has added its Group and, for each
\* member identifier, one active GroupMember row with role 'member'
C28_SuccessStep ==
    (response'.op = "create_group" /\ response'.status = 201) =>
        /\ ~C28_SomeMissing
        /\ \E g \in groups' \ groups :
              /\ groups' = groups \cup {g}
              /\ \A i \in DOMAIN response'.member_ids :
                    Cardinality({m \in group_members' \ group_members :
                                    /\ m.group_id = g.id
                                    /\ m.user_id = response'.member_ids[i]
                                    /\ m.role = "member"
                                    /\ m.is_active}) = 1
              /\ \A m \in group_members' \ group_members :
                    /\ m.group_id = g.id
                    /\ \E i \in DOMAIN response'.member_ids :
                          m.user_id = response'.member_ids[i]

\* C28: create_group is all-or-nothing: if any identifier in member_ids refers
\* to no User the call fails with 404 'User {id} not found.' for the first
\* missing one, and after the request neither the Group row nor any GroupMember
\* row of that request exists; on success the Group and one active GroupMember
\* row with role 'member' per member identifier all exist.
C28_AllOrNothing == [][C28_FailStep]_vars /\ [][C28_SuccessStep]_vars

\* a request whose list names an existing user, then a missing one, then the
\* creator was answered 404 for the missing one, and the tables hold the two
\* groups and three members of before
C28_Witness ==
    /\ response.op = "create_group"
    /\ response.status = 404
    /\ Len(response.member_ids) = 3
    /\ response.member_ids[2] = 6
    /\ response.detail = "User 6 not found."
    /\ Cardinality(groups) = 2
    /\ group_members = InitMembers

\* ------------------------------------------------------------------ C29
\* every approval that commits successfully adds one to the stored count of its
\* side and leaves the stored count of the other side
C29_CommitStep ==
    \A q \in Sessions :
       (CommitsApprove(q) /\ response'.status = 200) =>
          LET old == RowOf(likes, q.like.id)
              new == RowOf(likes', q.like.id)
          IN  IF q.user_group_id = q.like.likee_group_id
                THEN /\ new.group_b_approvals_count = old.group_b_approvals_count + 1
                     /\ new.group_a_approvals_count = old.group_a_approvals_count
                ELSE /\ new.group_a_approvals_count = old.group_a_approvals_count + 1
                     /\ new.group_b_approvals_count = old.group_b_approvals_count

\* C29: no approval is lost under concurrency: for any interleaving of
\* approve_like requests on the same Like, once all of them have committed
\* successfully, each side's stored count equals the number of successful
\* approvals of that side, that is, every successful approval has added exactly
\* one to the stored count of its side.
C29_NoApprovalLost == [][C29_CommitStep]_vars

\* the two members of the liker group approve in overlap: both requests have
\* loaded the same liker count
C29_Witness ==
    \E q1 \in Sessions, q2 \in Sessions :
       /\ q1.op = "approve_like" /\ q2.op = "approve_like"
       /\ q1.user_id = 2 /\ q2.user_id = 3
       /\ q1.like.id = q2.like.id
       /\ q1.user_group_id = q1.like.liker_group_id
       /\ q2.user_group_id = q2.like.liker_group_id
       /\ q1.like.group_a_approvals_count = q2.like.group_a_approvals_count

\* ------------------------------------------------------------------ C30
\* the answer to an upload names a URL from which the delete route extracts
\* the key under which the object was put
C30_UploadAnswer ==
    (response.op = "upload_photo" /\ response.status = 201) =>
        /\ ExtractKey(response.url).ok
        /\ ExtractKey(response.url).key = response.storage_calls[1].key

\* a delete request for the URL of an uploaded photo asks the storage to delete
\* the key that the upload generated for it
C30_DeleteStep ==
    \A q \in BagToSet(inflight') :
       (q.op = "delete_photo" /\ inflight' = Open(q)) =>
          \A n \in 1..clock :
             q.url = PublicUrl(S3Key(q.user_id, n)) =>
                q.storage_calls = <<[call |-> "delete_object",
                                     key |-> S3Key(q.user_id, n)]>>

\* C30: upload and delete agree on the storage key: for every (key, url)
\* returned by upload_photo, in the endpoint form {endpoint}/{bucket}/{key} and
\* in the virtual-hosted form https://{bucket}.s3.{region}.amazonaws.com/{key},
\* the key that the delete route extracts from url equals key, for every
\* configured bucket name, endpoint path and photo prefix.
C30_KeysAgree == [](C30_UploadAnswer) /\ [][C30_DeleteStep]_vars

\* with the default prefix "photos", an endpoint URL and a bucket whose name
\* ends with "photos", the photo was put under one key and the delete request
\* is about to commit after deleting another
C30_Witness ==
    \E q \in Sessions :
       /\ q.op = "delete_photo"
       /\ settings.s3_photo_prefix = <<Part("photos", 0)>>
       /\ ~settings.s3_endpoint_url.null
       /\ settings.s3_bucket_name = Configured(<<Part("photos", 1)>>)
       /\ \E n \in 1..clock :
             /\ q.url = PublicUrl(S3Key(q.user_id, n))
             /\ q.storage_calls[1].key # S3Key(q.user_id, n)
====
